---- MODULE Spec2Model ----
(***************************************************************************)
(* tiny-ts-mapper: the schema validation engine (src/src/schema).          *)
(*                                                                         *)
(* A schema is a tagged record; _parse(schema, value, path) is the        *)
(* operator Parse, which yields an immediate value, a thrown error, or a   *)
(* promise.  A promise is a term: a leaf is a pending computation supplied *)
(* by user code (an async predicate, transform function or default         *)
(* supplier), the other nodes are the then/catch/all/allSettled chains the *)
(* schemas build on it.  Leaves settle one at a time, in any order; the    *)
(* handlers chained on a settled promise run in the same step.             *)
(***************************************************************************)
EXTENDS Integers, Sequences, FiniteSets, TLC

VARIABLES
  schema,    \* the schema instance under test (built before any call)
  pc,        \* "idle" | "pending" | "settled": state of the root _parse result
  entry,     \* which public entry point was called
  input,     \* the value given to the entry point
  task,      \* the result of the root _parse call: value, error or promise term
  outcome,   \* what the entry point delivered to its caller
  log,       \* every _parse call and every call of user code, in completion order
  settles,   \* number of user-supplied pending computations settled so far
  derived,   \* the instance a chaining call on the schema returned, if one was made
  other,     \* a second call made on the same instance, if one was made
  lastIndex  \* lastIndex of the RegExp object the schema instance holds

vars == <<schema, pc, entry, input, task, outcome, log, settles, derived, other, lastIndex>>

----------------------------------------------------------------------------
(* Bounds of the model *)

\* longest input array
MaxLen == 2

----------------------------------------------------------------------------
(* JavaScript values *)

Undef == [t |-> "undefined"]
Null == [t |-> "null"]
Num(n) == [t |-> "number", n |-> n, kind |-> "finite"]
NaN == [t |-> "number", n |-> 0, kind |-> "NaN"]
Infinity == [t |-> "number", n |-> 0, kind |-> "Infinity"]
NegInfinity == [t |-> "number", n |-> 0, kind |-> "-Infinity"]
\* a string is its sequence of characters
Str(chars) == [t |-> "string", s |-> chars]
Bool(b) == [t |-> "boolean", b |-> b]
Arr(items) == [t |-> "array", items |-> items]
\* an object is the ordered list of its own enumerable properties
Obj(entries) == [t |-> "object", entries |-> entries]
Entry(key, val) == [key |-> key, val |-> val]

\* typeof v
TypeOf(v) == IF v.t \in {"null", "array"} THEN "object" ELSE v.t

\* !!v
Truthy(v) ==
  CASE v.t = "undefined" -> FALSE
    [] v.t = "null" -> FALSE
    [] v.t = "boolean" -> v.b
    [] v.t = "number" -> v.kind \in {"Infinity", "-Infinity", "half"} \/ (v.kind = "finite" /\ v.n # 0)
    [] v.t = "string" -> Len(v.s) > 0
    [] OTHER -> TRUE

\* Object.keys(record)
ObjectKeys(entries) == [i \in 1..Len(entries) |-> entries[i].key]

SeqRange(s) == {s[i] : i \in 1..Len(s)}

\* the property names every plain object inherits from Object.prototype
ObjectPrototypeKeys == {"toString", "constructor", "valueOf", "hasOwnProperty"}

\* the function Object.prototype holds under an inherited name
Inherited(key) == [t |-> "function", name |-> key]

\* record[key]: the own property, else the inherited one, else undefined
GetProp(entries, key) ==
  IF \E i \in 1..Len(entries) : entries[i].key = key
  THEN entries[CHOOSE i \in 1..Len(entries) : entries[i].key = key].val
  ELSE IF key \in ObjectPrototypeKeys THEN Inherited(key)
  ELSE Undef

----------------------------------------------------------------------------
(* Paths and issues *)

Idx(i) == [seg |-> "index", i |-> i, key |-> ""]
Key(k) == [seg |-> "key", i |-> 0, key |-> k]

pushPath(path, segment) == Append(path, segment)

Issue(path, code, message) == [path |-> path, code |-> code, message |-> message]

----------------------------------------------------------------------------
(* Errors *)

ValidationError(issues) == [k |-> "ValidationError", issues |-> issues, message |-> "Validation error"]

AsyncParseError == [k |-> "AsyncParseError", message |-> "Encountered async validations; use parseAsync()"]

\* new Error(msg), thrown by user code
Error(msg) == [k |-> "Error", message |-> msg]

\* a thrown value that is no Error object: it has no message, String(v) is str
Thrown(str) == [k |-> "thrown", str |-> str]

isValidationError(e) == e.k = "ValidationError"

HasMessage(e) == e.k # "thrown"

\* (err as Error)?.message ?? String(err)
MessageOrString(e) == IF HasMessage(e) THEN e.message ELSE e.str

MergeNonValidationError(issues, err) ==
  Append(issues, Issue(<<>>, "custom", MessageOrString(err)))

\* ValidationError.merge, on the issue list of the receiver
merge(issues, err) ==
  IF isValidationError(err)
  THEN issues \o err.issues
  ELSE MergeNonValidationError(issues, err)

hasIssues(issues) == Len(issues) > 0

----------------------------------------------------------------------------
(* Results of _parse: a value, a thrown error, or a promise term *)

Val(v) == [k |-> "val", v |-> v]
Thr(e) == [k |-> "err", e |-> e]
\* a pending computation created by user code, which will settle as `out`
Leaf(out) == [k |-> "leaf", out |-> out]

isPromise(r) == r.k \notin {"val", "err"}
IsSettled(r) == r.k \in {"val", "err"}

ERROR_SENTINEL == [t |-> "symbol", s |-> "error_sentinel"]

\* a result together with the calls made while computing it
Ret(r, lg) == [r |-> r, log |-> lg]

----------------------------------------------------------------------------
(* Log of calls: one event per completed call *)

\* how a call ended: "val", "err", or "promise"
RetKind(r) == IF isPromise(r) THEN "promise" ELSE r.k

\* schema._parse(v, path) was called and ended as r
ParseEv(s, v, path, r) == [ev |-> "_parse", s |-> s, v |-> v, path |-> path, ret |-> RetKind(r)]

\* user code of schema s (its predicate, transform function or default supplier) was called
UserEv(what, s, v, r) == [ev |-> what, s |-> s, v |-> v, path |-> <<>>, ret |-> RetKind(r)]

----------------------------------------------------------------------------
(* Configuration objects with optional properties: { ...config, key: val } *)

NoConfig == <<>>
With(config, key, val) == [x \in (DOMAIN config) \cup {key} |-> IF x = key THEN val ELSE config[x]]
Has(config, key) == key \in DOMAIN config

----------------------------------------------------------------------------
(* Primitive schemas *)

StringSchema(config) == [kind |-> "string", config |-> config]
NumberSchema(config) == [kind |-> "number", config |-> config]
BooleanSchema == [kind |-> "boolean"]
EnumSchema(vals) == [kind |-> "enum", vals |-> vals]

IsSpace(c) == c = " "

\* /^[^\s@]+@[^\s@]+\.[^\s@]+$/.test(chars)
EmailTest(chars) ==
  /\ \A i \in 1..Len(chars) : ~IsSpace(chars[i])
  /\ Cardinality({i \in 1..Len(chars) : chars[i] = "@"}) = 1
  /\ \E i \in 2..Len(chars), j \in 1..(Len(chars) - 1) :
       chars[i] = "@" /\ chars[j] = "." /\ j > i + 1

\* /[a-z]/i.test(chars), over the characters the model uses
LetterTest(chars) == \E i \in 1..Len(chars) : chars[i] \in {"a", "b", "x", "y"}

RegexTest(re, chars) == IF re = "email" THEN EmailTest(chars) ELSE LetterTest(chars)

StringFail(path, code, message) == Thr(ValidationError(<<Issue(path, code, message)>>))

\* mutant: the pattern is checked before the length
StringParse_PatternFirst(s, v, path) ==
  IF TypeOf(v) # "string" THEN StringFail(path, "invalid_type", "Expected string")
  ELSE IF Has(s.config, "re") /\ ~RegexTest(s.config.re, v.s)
    THEN StringFail(path, "invalid_string", "Regex mismatch")
  ELSE IF Has(s.config, "min") /\ Len(v.s) < s.config.min
    THEN StringFail(path, "too_small", "Min length " \o ToString(s.config.min))
  ELSE IF Has(s.config, "max") /\ Len(v.s) > s.config.max
    THEN StringFail(path, "too_big", "Max length " \o ToString(s.config.max))
  ELSE Val(v)

StringParse(s, v, path) ==
  IF TypeOf(v) # "string" THEN StringFail(path, "invalid_type", "Expected string")
  ELSE IF Has(s.config, "min") /\ Len(v.s) < s.config.min
    THEN StringFail(path, "too_small", "Min length " \o ToString(s.config.min))
  ELSE IF Has(s.config, "max") /\ Len(v.s) > s.config.max
    THEN StringFail(path, "too_big", "Max length " \o ToString(s.config.max))
  ELSE IF Has(s.config, "re") /\ ~RegexTest(s.config.re, v.s)
    THEN StringFail(path, "invalid_string", "Regex mismatch")
  ELSE Val(v)

\* Number.isInteger(v)
IsInteger(v) == v.kind = "finite"

\* v < m and v > m for a number v that is not NaN and an integer m;
\* kind "half" is the number n + 0.5
LessThan(v, m) ==
  CASE v.kind = "finite" -> v.n < m
    [] v.kind = "half" -> v.n < m
    [] v.kind = "-Infinity" -> TRUE
    [] OTHER -> FALSE
GreaterThan(v, m) ==
  CASE v.kind = "finite" -> v.n > m
    [] v.kind = "half" -> v.n >= m
    [] v.kind = "Infinity" -> TRUE
    [] OTHER -> FALSE

NumberFail(path, code, message) == Thr(ValidationError(<<Issue(path, code, message)>>))

\* mutant: NaN passes the type check as every other number does
NumberParse_AcceptsNaN(s, v, path) ==
  IF TypeOf(v) # "number" THEN NumberFail(path, "invalid_type", "Expected number")
  ELSE IF Has(s.config, "int") /\ s.config.int /\ ~IsInteger(v)
    THEN NumberFail(path, "invalid_type", "Expected integer")
  ELSE IF Has(s.config, "min") /\ LessThan(v, s.config.min)
    THEN NumberFail(path, "too_small", "Min value " \o ToString(s.config.min))
  ELSE IF Has(s.config, "max") /\ GreaterThan(v, s.config.max)
    THEN NumberFail(path, "too_big", "Max value " \o ToString(s.config.max))
  ELSE Val(v)

NumberParse(s, v, path) ==
  IF TypeOf(v) # "number" \/ v.kind = "NaN" THEN NumberFail(path, "invalid_type", "Expected number")
  ELSE IF Has(s.config, "int") /\ s.config.int /\ ~IsInteger(v)
    THEN NumberFail(path, "invalid_type", "Expected integer")
  ELSE IF Has(s.config, "min") /\ LessThan(v, s.config.min)
    THEN NumberFail(path, "too_small", "Min value " \o ToString(s.config.min))
  ELSE IF Has(s.config, "max") /\ GreaterThan(v, s.config.max)
    THEN NumberFail(path, "too_big", "Max value " \o ToString(s.config.max))
  ELSE Val(v)

BooleanParse(v, path) ==
  IF TypeOf(v) = "boolean" THEN Val(v)
  ELSE Thr(ValidationError(<<Issue(path, "invalid_type", "Expected boolean")>>))

\* the message lists the allowed literals; the model keeps its fixed prefix
EnumParse(s, v, path) ==
  IF TypeOf(v) = "string" /\ v.s \in SeqRange(s.vals) THEN Val(v)
  ELSE Thr(ValidationError(<<Issue(path, "invalid_enum", "Expected one of")>>))

----------------------------------------------------------------------------
(* User-supplied code: predicates, transform functions, default sources.   *)
(* A function of mode "sync" returns or throws; one of mode "async"        *)
(* returns a pending computation that later fulfils or rejects.            *)

Predicate(mode, test) == [mode |-> mode, test |-> test]
TransformFn(mode, f) == [mode |-> mode, f |-> f]
DefaultValue(v) == [isFn |-> FALSE, value |-> v]
DefaultSupplier(mode, v, fails) == [isFn |-> TRUE, mode |-> mode, value |-> v, fails |-> fails]

IsPositive(v) == v.t = "number" /\ GreaterThan(v, 0)

\* what the predicate computes for value v
PredicateOutcome(p, v) ==
  CASE p.test = "always" -> Val(Bool(TRUE))
    [] p.test = "never" -> Val(Bool(FALSE))
    [] p.test = "void" -> Val(Undef)
    [] p.test = "positive" -> Val(Bool(IsPositive(v)))
    [] p.test = "throw" -> Thr(Error("predicate failed"))
    [] OTHER -> Thr(Thrown("oops"))

\* what the transform function computes for value v
TransformOutcome(fn, v) ==
  CASE fn.f = "increment" -> IF v.t # "number" THEN Val(NaN)
                             ELSE IF v.kind = "finite" THEN Val(Num(v.n + 1)) ELSE Val(v)
    [] fn.f = "isPositive" -> Val(Bool(IsPositive(v)))
    [] fn.f = "throw" -> Thr(Error("transform failed"))
    [] fn.f = "throwValidation" -> Thr(ValidationError(<<Issue(<<Key("zz")>>, "too_big", "inner")>>))
    [] OTHER -> Thr(Thrown("oops"))

SupplierOutcome(d) == IF d.fails THEN Thr(Error("supplier failed")) ELSE Val(d.value)

\* calling a user function: immediately, or as a pending computation
Invoke(mode, out) == IF mode = "sync" THEN out ELSE Leaf(out)

----------------------------------------------------------------------------
(* Composite and wrapper schemas *)

ArraySchema(inner) == [kind |-> "array", inner |-> inner]
Field(key, s) == [key |-> key, schema |-> s]
\* shape: the declared fields in declaration order
ObjectSchema(shape, config) == [kind |-> "object", shape |-> shape, config |-> config]
UnionSchema(candidates) == [kind |-> "union", candidates |-> candidates]
OptionalSchema(inner) == [kind |-> "optional", inner |-> inner]
NullableSchema(inner) == [kind |-> "nullable", inner |-> inner]
NullishSchema(inner) == [kind |-> "nullish", inner |-> inner]
DefaultSchema(inner, defaultSource) == [kind |-> "default", inner |-> inner, defaultSource |-> defaultSource]
\* message: the optional third argument; NoMessage when it was not given
NoMessage == [given |-> FALSE, text |-> ""]
Message(text) == [given |-> TRUE, text |-> text]
RefinementSchema(inner, predicate, message) ==
  [kind |-> "refine", inner |-> inner, predicate |-> predicate, message |-> message]
TransformSchema(inner, fn) == [kind |-> "transform", inner |-> inner, fn |-> fn]

----------------------------------------------------------------------------
(* Chaining operations: each returns a new instance built from the receiver *)

\* mutant: min starts from an empty configuration
StringSchema_min_Fresh(s, n) == StringSchema(With(NoConfig, "min", n))

StringSchema_min(s, n) == StringSchema(With(s.config, "min", n))
StringSchema_max(s, n) == StringSchema(With(s.config, "max", n))
\* mutant: a pattern that is already set stays
StringSchema_regex_KeepsFirst(s, r) ==
  IF Has(s.config, "re") THEN s ELSE StringSchema(With(s.config, "re", r))

StringSchema_regex(s, r) == StringSchema(With(s.config, "re", r))
StringSchema_email(s) == StringSchema_regex(s, "email")

NumberSchema_int(s) == NumberSchema(With(s.config, "int", TRUE))
NumberSchema_min(s, n) == NumberSchema(With(s.config, "min", n))
NumberSchema_max(s, n) == NumberSchema(With(s.config, "max", n))

ObjectSchema_passthrough(s) == ObjectSchema(s.shape, With(s.config, "passthrough", TRUE))
ObjectSchema_strict(s) == ObjectSchema(s.shape, With(s.config, "strict", TRUE))
\* every schema has optional(), so each field becomes schema.optional()
ObjectSchema_partial(s) ==
  ObjectSchema([i \in 1..Len(s.shape) |-> Field(s.shape[i].key, OptionalSchema(s.shape[i].schema))],
               s.config)

\* BaseSchema: optional(), nullable(), nullish()
optional(s) == OptionalSchema(s)
nullable(s) == NullableSchema(s)
nullish(s) == NullishSchema(s)

\* a chaining call: the name of the method and its argument
Call(name, arg) == [name |-> name, arg |-> arg]

\* the chaining calls the class of schema s offers
Chainers(s) ==
  {Call(m, 0) : m \in {"optional", "nullable", "nullish"}}
  \cup (IF s.kind = "string"
        THEN {Call("min", 1), Call("max", 0), Call("regex", 0), Call("email", 0)} ELSE {})
  \cup (IF s.kind = "number" THEN {Call("int", 0), Call("min", 1), Call("max", 0)} ELSE {})
  \cup (IF s.kind = "object" THEN {Call(m, 0) : m \in {"passthrough", "strict", "partial"}} ELSE {})

\* the instance the chaining call c on receiver s returns
Chain(s, c) ==
  CASE c.name = "optional" -> optional(s)
    [] c.name = "nullable" -> nullable(s)
    [] c.name = "nullish" -> nullish(s)
    [] c.name = "min" -> IF s.kind = "string" THEN StringSchema_min(s, c.arg) ELSE NumberSchema_min(s, c.arg)
    [] c.name = "max" -> IF s.kind = "string" THEN StringSchema_max(s, c.arg) ELSE NumberSchema_max(s, c.arg)
    [] c.name = "regex" -> StringSchema_regex(s, "letter")
    [] c.name = "email" -> StringSchema_email(s)
    [] c.name = "int" -> NumberSchema_int(s)
    [] c.name = "passthrough" -> ObjectSchema_passthrough(s)
    [] c.name = "strict" -> ObjectSchema_strict(s)
    [] c.name = "partial" -> ObjectSchema_partial(s)

\* Object.keys(this.shape)
ShapeKeys(shape) == [i \in 1..Len(shape) |-> shape[i].key]

\* key in this.shape: own declared fields and what the shape object inherits
KeyInShape(key, shape) == key \in SeqRange(ShapeKeys(shape)) \/ key \in ObjectPrototypeKeys

\* the promise terms the schemas build
Then(p, c) == [k |-> "then", p |-> p, c |-> c]
Catch(p, c) == [k |-> "catch", p |-> p, c |-> c]
\* mutant: only the first pending child is waited for
All_FirstPendingOnly(items, agg, fin) ==
  LET pending == {i \in 1..Len(items) : items[i].k \notin {"val", "err"}}
      first == CHOOSE i \in pending : \A j \in pending : i <= j
  IN [k |-> "all",
      items |-> [i \in 1..Len(items) |->
                   IF i \in pending /\ i # first THEN [k |-> "val", v |-> [t |-> "symbol", s |-> "error_sentinel"]]
                   ELSE items[i]],
      agg |-> agg, fin |-> fin]

\* Promise.all(items).then(fin), with the aggregate the items' catch handlers write to
All(items, agg, fin) == [k |-> "all", items |-> items, agg |-> agg, fin |-> fin]
\* Promise.allSettled(items).then(...), with the aggregate of the synchronous failures
AllSettled(items, agg) == [k |-> "allSettled", items |-> items, agg |-> agg]

\* ArraySchema: unwrapValidOrThrow
unwrapValidOrThrow(agg, vals) ==
  IF hasIssues(agg) THEN Thr(ValidationError(agg))
  ELSE Val(Arr(SelectSeq(vals, LAMBDA x : x # ERROR_SENTINEL)))

\* mutant: the remaining input keys are copied whatever the mode
buildOutput_AlwaysPassthrough(agg, resolved, passthrough, rest) ==
  IF hasIssues(agg) THEN Thr(ValidationError(agg))
  ELSE Val(Obj(SelectSeq(resolved, LAMBDA e : e.val # ERROR_SENTINEL) \o rest))

\* ObjectSchema: buildOutput; resolved is the list of [key, value] pairs,
\* rest the input properties left in remainingKeys
buildOutput(agg, resolved, passthrough, rest) ==
  IF hasIssues(agg) THEN Thr(ValidationError(agg))
  ELSE Val(Obj(SelectSeq(resolved, LAMBDA e : e.val # ERROR_SENTINEL)
               \o (IF passthrough THEN rest ELSE <<>>)))

----------------------------------------------------------------------------
(* _parse of every schema kind.  Each operator returns Ret(result, calls).  *)

RECURSIVE Parse(_, _, _), ParseKind(_, _, _), ParseItems(_, _, _, _, _),
          ParseFields(_, _, _, _, _), ParseCandidates(_, _, _, _, _)

\* mutant: the failure of an element is not recorded
handleItemError_Drop(agg, e) == agg

\* ArraySchema: handleItemError, on the aggregate's issue list
handleItemError(agg, e) == merge(agg, e)

\* ArraySchema: results = input.map(parseItem); acc carries results, aggregate and calls
ParseItems(inner, items, path, i, acc) ==
  IF i > Len(items) THEN acc
  ELSE LET e == Parse(inner, items[i], pushPath(path, Idx(i - 1)))
           failed == e.r.k = "err"
       IN ParseItems(inner, items, path, i + 1,
            [results |-> Append(acc.results, IF failed THEN Val(ERROR_SENTINEL) ELSE e.r),
             agg |-> IF failed THEN handleItemError(acc.agg, e.r.e) ELSE acc.agg,
             log |-> acc.log \o e.log])

ArrayParse(s, v, path) ==
  IF v.t # "array"
  THEN Ret(Thr(ValidationError(<<Issue(path, "invalid_array", "Expected array")>>)), <<>>)
  ELSE LET acc == ParseItems(s.inner, v.items, path, 1, [results |-> <<>>, agg |-> <<>>, log |-> <<>>])
           hasAsync == \E i \in 1..Len(acc.results) : isPromise(acc.results[i])
       IN IF ~hasAsync
          THEN Ret(unwrapValidOrThrow(acc.agg, [i \in 1..Len(acc.results) |-> acc.results[i].v]), acc.log)
          ELSE Ret(All(acc.results, acc.agg, [op |-> "unwrapValidOrThrow"]), acc.log)

\* ObjectSchema: the strict check over the input's own keys
StrictIssues(shape, record, path) ==
  LET unknown == SelectSeq(ObjectKeys(record), LAMBDA key : ~KeyInShape(key, shape))
  IN [i \in 1..Len(unknown) |->
        Issue(pushPath(path, Key(unknown[i])), "unrecognized_keys", "Unrecognized key: '" \o unknown[i] \o "'")]

\* ObjectSchema: pairs = shapeKeys.map(parseField)
ParseFields(shape, record, path, i, acc) ==
  IF i > Len(shape) THEN acc
  ELSE LET key == shape[i].key
           e == Parse(shape[i].schema, GetProp(record, key), pushPath(path, Key(key)))
           failed == e.r.k = "err"
       IN ParseFields(shape, record, path, i + 1,
            [results |-> Append(acc.results, IF failed THEN Val(ERROR_SENTINEL) ELSE e.r),
             agg |-> IF failed THEN merge(acc.agg, e.r.e) ELSE acc.agg,
             log |-> acc.log \o e.log])

\* remainingKeys after every declared key was deleted from it, with the input's values
RemainingEntries(shape, record) ==
  SelectSeq(record, LAMBDA e : e.key \notin SeqRange(ShapeKeys(shape)))

Pairs(keys, vals) == [i \in 1..Len(keys) |-> Entry(keys[i], vals[i])]

ObjectParse(s, v, path) ==
  IF v.t # "object"
  THEN Ret(Thr(ValidationError(<<Issue(path, "invalid_object", "Expected object")>>)), <<>>)
  ELSE LET record == v.entries
           strict == Has(s.config, "strict") /\ s.config.strict
           passthrough == Has(s.config, "passthrough") /\ s.config.passthrough
           acc == ParseFields(s.shape, record, path, 1,
                    [results |-> <<>>,
                     agg |-> IF strict THEN StrictIssues(s.shape, record, path) ELSE <<>>,
                     log |-> <<>>])
           hasAsync == \E i \in 1..Len(acc.results) : isPromise(acc.results[i])
           rest == RemainingEntries(s.shape, record)
       IN IF hasAsync
          THEN Ret(All(acc.results, acc.agg,
                       [op |-> "buildOutput", keys |-> ShapeKeys(s.shape),
                        passthrough |-> passthrough, rest |-> rest]), acc.log)
          ELSE Ret(buildOutput(acc.agg,
                               Pairs(ShapeKeys(s.shape), [i \in 1..Len(acc.results) |-> acc.results[i].v]),
                               passthrough, rest), acc.log)

\* UnionSchema: the loop over the candidates; it stops at the first synchronous success
ParseCandidates(candidates, v, path, i, acc) ==
  IF i > Len(candidates) THEN acc
  ELSE LET e == Parse(candidates[i], v, path)
       IN IF e.r.k = "val"
          THEN [acc EXCEPT !.found = TRUE, !.r = e.r, !.log = acc.log \o e.log]
          ELSE ParseCandidates(candidates, v, path, i + 1,
                 [acc EXCEPT !.pending = IF isPromise(e.r) THEN Append(acc.pending, e.r) ELSE acc.pending,
                             !.agg = IF e.r.k = "err" THEN merge(acc.agg, e.r.e) ELSE acc.agg,
                             !.log = acc.log \o e.log])

\* mutant: a synchronous success is not returned while candidates are pending
UnionParse_WaitsForPending(s, v, path) ==
  LET acc == ParseCandidates(s.candidates, v, path, 1,
               [found |-> FALSE, r |-> Val(Undef), pending |-> <<>>, agg |-> <<>>, log |-> <<>>])
  IN IF Len(acc.pending) = 0
     THEN Ret(IF acc.found THEN acc.r ELSE Thr(ValidationError(acc.agg)), acc.log)
     ELSE Ret(AllSettled(acc.pending, acc.agg), acc.log)

UnionParse(s, v, path) ==
  LET acc == ParseCandidates(s.candidates, v, path, 1,
               [found |-> FALSE, r |-> Val(Undef), pending |-> <<>>, agg |-> <<>>, log |-> <<>>])
  IN IF acc.found THEN Ret(acc.r, acc.log)
     ELSE IF Len(acc.pending) = 0 THEN Ret(Thr(ValidationError(acc.agg)), acc.log)
     ELSE Ret(AllSettled(acc.pending, acc.agg), acc.log)

\* mutant: a void result of the predicate passes
onResolved_AcceptsVoid(s, value, ok, path) ==
  IF Truthy(ok) \/ ok = Undef THEN Val(value)
  ELSE Thr(ValidationError(<<Issue(path, "custom",
             IF s.message.given THEN s.message.text ELSE "Refinement failed")>>))

\* RefinementSchema: onResolved
onResolved(s, value, ok, path) ==
  IF Truthy(ok) THEN Val(value)
  ELSE Thr(ValidationError(<<Issue(path, "custom",
             IF s.message.given THEN s.message.text ELSE "Refinement failed")>>))

\* mutant: a pending result of the predicate is taken as a truthy result
checkPredicateOrThrow_NoAwait(s, value, path) ==
  LET result == Invoke(s.predicate.mode, PredicateOutcome(s.predicate, value))
      called == <<UserEv("predicate", s, value, result)>>
  IN IF result.k = "err" THEN Ret(result, called)
     ELSE IF isPromise(result) THEN Ret(Val(value), called)
     ELSE Ret(onResolved(s, value, result.v, path), called)

\* RefinementSchema: _checkPredicateOrThrow
checkPredicateOrThrow(s, value, path) ==
  LET result == Invoke(s.predicate.mode, PredicateOutcome(s.predicate, value))
      called == <<UserEv("predicate", s, value, result)>>
  IN IF result.k = "err" THEN Ret(result, called)
     ELSE IF isPromise(result)
       THEN Ret(Then(result, [op |-> "onResolved", s |-> s, value |-> value, path |-> path]), called)
     ELSE Ret(onResolved(s, value, result.v, path), called)

RefinementParse(s, v, path) ==
  LET parsed == Parse(s.inner, v, path)
  IN IF parsed.r.k = "err" THEN parsed
     ELSE IF isPromise(parsed.r)
       THEN Ret(Then(parsed.r, [op |-> "checkPredicateOrThrow", s |-> s, path |-> path]), parsed.log)
     ELSE LET c == checkPredicateOrThrow(s, parsed.r.v, path)
          IN Ret(c.r, parsed.log \o c.log)

\* mutant: the error of the transform function is passed on as it is
asTransformError_Raw(e, path) == e

\* TransformSchema: _asTransformError
asTransformError(e, path) == ValidationError(<<Issue(path, "custom", MessageOrString(e))>>)

\* TransformSchema: _applyTransformOrThrow
applyTransformOrThrow(s, value, path) ==
  LET result == Invoke(s.fn.mode, TransformOutcome(s.fn, value))
      called == <<UserEv("transform", s, value, result)>>
  IN IF result.k = "err" THEN Ret(Thr(asTransformError(result.e, path)), called)
     ELSE IF isPromise(result)
       THEN Ret(Catch(result, [op |-> "asTransformError", path |-> path]), called)
     ELSE Ret(result, called)

TransformParse(s, v, path) ==
  LET parsed == Parse(s.inner, v, path)
  IN IF parsed.r.k = "err" THEN parsed
     ELSE IF isPromise(parsed.r)
       THEN Ret(Then(parsed.r, [op |-> "applyTransformOrThrow", s |-> s, path |-> path]), parsed.log)
     ELSE LET c == applyTransformOrThrow(s, parsed.r.v, path)
          IN Ret(c.r, parsed.log \o c.log)

\* DefaultSchema: resolveDefault
resolveDefault(s) ==
  IF s.defaultSource.isFn
  THEN LET result == Invoke(s.defaultSource.mode, SupplierOutcome(s.defaultSource))
       IN Ret(result, <<UserEv("supplier", s, Undef, result)>>)
  ELSE Ret(Val(s.defaultSource.value), <<>>)

\* mutant: null is replaced by the default as undefined is
DefaultParse_Nullish(s, v, path) ==
  IF v \notin {Undef, Null} THEN Parse(s.inner, v, path)
  ELSE LET resolved == resolveDefault(s)
       IN IF resolved.r.k = "err" THEN resolved
          ELSE IF isPromise(resolved.r)
            THEN Ret(Then(resolved.r, [op |-> "parseInner", s |-> s, path |-> path]), resolved.log)
          ELSE LET parsed == Parse(s.inner, resolved.r.v, path)
               IN Ret(parsed.r, resolved.log \o parsed.log)

\* mutant: the resolved default is returned without being validated
DefaultParse_Unvalidated(s, v, path) ==
  IF v # Undef THEN Parse(s.inner, v, path)
  ELSE LET resolved == resolveDefault(s)
       IN IF isPromise(resolved.r)
          THEN Ret(Then(resolved.r, [op |-> "parseInner", s |-> s, path |-> path]), resolved.log)
          ELSE resolved

DefaultParse(s, v, path) ==
  IF v # Undef THEN Parse(s.inner, v, path)
  ELSE LET resolved == resolveDefault(s)
       IN IF resolved.r.k = "err" THEN resolved
          ELSE IF isPromise(resolved.r)
            THEN Ret(Then(resolved.r, [op |-> "parseInner", s |-> s, path |-> path]), resolved.log)
          ELSE LET parsed == Parse(s.inner, resolved.r.v, path)
               IN Ret(parsed.r, resolved.log \o parsed.log)

\* mutant: null is handed to the inner schema like any other input
NullableParse_Inner(s, v, path) == Parse(s.inner, v, path)

OptionalParse(s, v, path) == IF v = Undef THEN Ret(Val(Undef), <<>>) ELSE Parse(s.inner, v, path)
NullableParse(s, v, path) == IF v = Null THEN Ret(Val(Null), <<>>) ELSE Parse(s.inner, v, path)
NullishParse(s, v, path) == IF v = Null \/ v = Undef THEN Ret(Val(v), <<>>) ELSE Parse(s.inner, v, path)

\* dispatch on the class of the schema
ParseKind(s, v, path) ==
  CASE s.kind = "string" -> Ret(StringParse(s, v, path), <<>>)
    [] s.kind = "number" -> Ret(NumberParse(s, v, path), <<>>)
    [] s.kind = "boolean" -> Ret(BooleanParse(v, path), <<>>)
    [] s.kind = "enum" -> Ret(EnumParse(s, v, path), <<>>)
    [] s.kind = "array" -> ArrayParse(s, v, path)
    [] s.kind = "object" -> ObjectParse(s, v, path)
    [] s.kind = "union" -> UnionParse(s, v, path)
    [] s.kind = "refine" -> RefinementParse(s, v, path)
    [] s.kind = "transform" -> TransformParse(s, v, path)
    [] s.kind = "default" -> DefaultParse(s, v, path)
    [] s.kind = "optional" -> OptionalParse(s, v, path)
    [] s.kind = "nullable" -> NullableParse(s, v, path)
    [] s.kind = "nullish" -> NullishParse(s, v, path)

\* schema._parse(v, path), with the call recorded when it completes
Parse(s, v, path) ==
  LET e == ParseKind(s, v, path)
  IN Ret(e.r, Append(e.log, ParseEv(s, v, path, e.r)))

----------------------------------------------------------------------------
(* Promises: which pending computations a term waits for, and what happens *)
(* when one of them settles                                                *)

\* the callback given to then(), applied to the fulfilment value x
ApplyThen(c, x) ==
  CASE c.op = "checkPredicateOrThrow" -> checkPredicateOrThrow(c.s, x, c.path)
    [] c.op = "onResolved" -> Ret(onResolved(c.s, c.value, x, c.path), <<>>)
    [] c.op = "applyTransformOrThrow" -> applyTransformOrThrow(c.s, x, c.path)
    [] c.op = "parseInner" -> Parse(c.s.inner, x, c.path)

\* the callback given to catch(), applied to the rejection reason e
ApplyCatch(c, e) == Thr(asTransformError(e, c.path))

\* UnionSchema: the loop over the settled candidates
RECURSIVE FirstFulfilled(_, _, _)
\* mutant: the last fulfilled candidate wins
RECURSIVE FirstFulfilled_Last(_, _, _)
FirstFulfilled_Last(settled, agg, i) ==
  IF i > Len(settled) THEN Thr(ValidationError(agg))
  ELSE LET rest == FirstFulfilled_Last(settled, agg, i + 1)
       IN IF settled[i].k # "val" THEN FirstFulfilled_Last(settled, merge(agg, settled[i].e), i + 1)
          ELSE IF rest.k = "val" THEN rest ELSE settled[i]


FirstFulfilled(settled, agg, i) ==
  IF i > Len(settled) THEN Thr(ValidationError(agg))
  ELSE IF settled[i].k = "val" THEN settled[i]
  ELSE FirstFulfilled(settled, merge(agg, settled[i].e), i + 1)

\* the then() callback of Promise.all: unwrapValidOrThrow or buildOutput
Finish(fin, agg, vals) ==
  IF fin.op = "unwrapValidOrThrow" THEN unwrapValidOrThrow(agg, vals)
  ELSE buildOutput(agg, Pairs(fin.keys, vals), fin.passthrough, fin.rest)

\* positions of the pending user computations inside a promise term
RECURSIVE Leaves(_)
Leaves(t) ==
  CASE t.k = "leaf" -> {<<>>}
    [] t.k \in {"then", "catch"} -> {<<1>> \o q : q \in Leaves(t.p)}
    [] t.k \in {"all", "allSettled"} ->
         UNION {{<<i>> \o q : q \in Leaves(t.items[i])} : i \in 1..Len(t.items)}
    [] OTHER -> {}

\* the term after the pending computation at pos has settled and every
\* handler chained on it has run
RECURSIVE SettleAt(_, _)
SettleAt(t, pos) ==
  CASE t.k = "leaf" -> Ret(t.out, <<>>)
    [] t.k = "then" ->
         LET sub == SettleAt(t.p, Tail(pos))
         IN IF sub.r.k = "val"
            THEN LET c == ApplyThen(t.c, sub.r.v) IN Ret(c.r, sub.log \o c.log)
            ELSE IF sub.r.k = "err" THEN sub
            ELSE Ret(Then(sub.r, t.c), sub.log)
    [] t.k = "catch" ->
         LET sub == SettleAt(t.p, Tail(pos))
         IN IF sub.r.k = "err" THEN Ret(ApplyCatch(t.c, sub.r.e), sub.log)
            ELSE IF sub.r.k = "val" THEN sub
            ELSE Ret(Catch(sub.r, t.c), sub.log)
    [] t.k = "all" ->
         LET i == Head(pos)
             sub == SettleAt(t.items[i], Tail(pos))
             failed == sub.r.k = "err"
             agg == IF failed THEN handleItemError(t.agg, sub.r.e) ELSE t.agg
             items == [t.items EXCEPT ![i] = IF failed THEN Val(ERROR_SENTINEL) ELSE sub.r]
         IN IF \A j \in 1..Len(items) : items[j].k = "val"
            THEN Ret(Finish(t.fin, agg, [j \in 1..Len(items) |-> items[j].v]), sub.log)
            ELSE Ret(All(items, agg, t.fin), sub.log)
    [] t.k = "allSettled" ->
         LET i == Head(pos)
             sub == SettleAt(t.items[i], Tail(pos))
             items == [t.items EXCEPT ![i] = sub.r]
         IN IF \A j \in 1..Len(items) : IsSettled(items[j])
            THEN Ret(FirstFulfilled(items, t.agg, 1), sub.log)
            ELSE Ret(AllSettled(items, t.agg), sub.log)

----------------------------------------------------------------------------
(* The public entry points of BaseSchema *)

Success(data) == [success |-> TRUE, data |-> data]
Failure(error) == [success |-> FALSE, error |-> error]

Returned(v) == [how |-> "returned", v |-> v]
Raised(e) == [how |-> "raised", e |-> e]
Fulfilled(v) == [how |-> "fulfilled", v |-> v]
Rejected(e) == [how |-> "rejected", e |-> e]
NoOutcome == [how |-> "none"]
NoTask == [k |-> "none"]

\* mutant: the caught error is returned as it is
makeSafeResultError_NoWrap(e) == Failure(e)

\* mutant: the fallback message is String(e), as in ValidationError.merge
makeSafeResultError_StringFallback(e) ==
  IF isValidationError(e) THEN Failure(e)
  ELSE Failure(ValidationError(<<Issue(<<>>, "custom", MessageOrString(e))>>))

\* BaseSchema._makeSafeResultError
makeSafeResultError(e) ==
  IF isValidationError(e) THEN Failure(e)
  ELSE Failure(ValidationError(<<Issue(<<>>, "custom",
                 IF HasMessage(e) THEN e.message ELSE "Unknown error")>>))

\* mutant: parse hands a promise back to its caller
parseOutcome_NoAsyncCheck(r) == IF r.k = "err" THEN Raised(r.e) ELSE Returned(r)

\* BaseSchema.parse on the result r of the root _parse call
parseOutcome(r) ==
  IF isPromise(r) THEN Raised(AsyncParseError)
  ELSE IF r.k = "val" THEN Returned(r.v)
  ELSE Raised(r.e)

\* BaseSchema.safeParse
safeParseOutcome(r) ==
  LET o == parseOutcome(r)
  IN IF o.how = "returned" THEN Returned(Success(o.v))
     ELSE Returned(makeSafeResultError(o.e))

\* mutant: a failure of the root call is raised to the caller of parseAsync
parseAsyncOutcome_Raises(r) == IF r.k = "val" THEN Fulfilled(r.v) ELSE Raised(r.e)

\* BaseSchema.parseAsync, once the root result r has settled
parseAsyncOutcome(r) == IF r.k = "val" THEN Fulfilled(r.v) ELSE Rejected(r.e)

\* BaseSchema.safeParseAsync, once the root result r has settled
safeParseAsyncOutcome(r) ==
  LET o == parseAsyncOutcome(r)
  IN IF o.how = "fulfilled" THEN Fulfilled(Success(o.v))
     ELSE Fulfilled(makeSafeResultError(o.e))

\* what an async entry point delivers for root result r: nothing while r is pending
Deliver(e, r) ==
  IF isPromise(r) THEN NoOutcome
  ELSE IF e = "parseAsync" THEN parseAsyncOutcome(r)
  ELSE safeParseAsyncOutcome(r)

----------------------------------------------------------------------------
(* The schemas and inputs the model is run on *)

string == StringSchema(NoConfig)
number == NumberSchema(NoConfig)
boolean == BooleanSchema
enum == EnumSchema(<<<<"x">>, <<"a", "b">>>>)

Modes == {"sync", "async"}
Tests == {"always", "never", "void", "positive", "throw", "throwString"}
Fns == {"increment", "isPositive", "throw", "throwValidation", "throwString"}

Refinements(inner) ==
  {RefinementSchema(inner, Predicate(m, t), NoMessage) : m \in Modes, t \in Tests}
  \cup {RefinementSchema(inner, Predicate(m, "positive"), Message("must be positive")) : m \in Modes}
Transforms(inner) == {TransformSchema(inner, TransformFn(m, f)) : m \in Modes, f \in Fns}
Defaults(inner) ==
  {DefaultSchema(inner, DefaultValue(v)) : v \in {Num(1), Str(<<"x">>)}}
  \cup {DefaultSchema(inner, DefaultSupplier(m, Num(1), fails)) : m \in Modes, fails \in BOOLEAN}

asyncPositive == RefinementSchema(number, Predicate("async", "positive"), NoMessage)
syncPositive == RefinementSchema(number, Predicate("sync", "positive"), NoMessage)
asyncThrow == RefinementSchema(number, Predicate("async", "throw"), NoMessage)
syncThrow == RefinementSchema(number, Predicate("sync", "throw"), NoMessage)
asyncAlways == RefinementSchema(string, Predicate("async", "always"), NoMessage)
asyncIncrement == TransformSchema(number, TransformFn("async", "increment"))
asyncDefault == DefaultSchema(asyncPositive, DefaultSupplier("async", Num(0), FALSE))

WrapperSchemas ==
  Refinements(number) \cup Transforms(number) \cup Defaults(number)
  \cup {OptionalSchema(string), NullableSchema(string), NullishSchema(string),
        OptionalSchema(NullableSchema(string)), NullableSchema(OptionalSchema(string)),
        OptionalSchema(asyncPositive), asyncAlways, asyncDefault,
        RefinementSchema(asyncPositive, Predicate("async", "always"), NoMessage),
        TransformSchema(asyncPositive, TransformFn("async", "increment")),
        TransformSchema(asyncIncrement, TransformFn("sync", "increment"))}

ArraySchemas ==
  {ArraySchema(inner) : inner \in {number, string, asyncPositive, syncPositive, asyncThrow, syncThrow,
                                   asyncIncrement, ArraySchema(number), ArraySchema(asyncPositive),
                                   UnionSchema(<<>>), OptionalSchema(number),
                                   UnionSchema(<<asyncPositive, number>>)}}

Configs == {NoConfig, With(NoConfig, "strict", TRUE), With(NoConfig, "passthrough", TRUE),
            With(With(NoConfig, "strict", TRUE), "passthrough", TRUE)}

Shapes == {<<Field("a", number)>>,
           <<Field("a", number), Field("b", string)>>,
           <<Field("a", asyncPositive), Field("b", number)>>,
           <<Field("a", asyncPositive), Field("b", asyncPositive)>>,
           <<Field("a", OptionalSchema(number)), Field("b", UnionSchema(<<>>))>>,
           <<Field("b", syncThrow), Field("a", ArraySchema(asyncPositive))>>,
           <<>>}

ObjectSchemas == {ObjectSchema(shape, config) : shape \in Shapes, config \in Configs}

UnionSchemas ==
  {UnionSchema(cs) : cs \in {<<>>, <<string, number>>, <<number, string, boolean>>,
                             <<asyncPositive, number>>, <<number, asyncPositive>>,
                             <<asyncPositive, string>>, <<asyncPositive, asyncIncrement>>,
                             <<asyncThrow, asyncPositive, asyncIncrement>>,
                             <<asyncPositive, syncThrow, asyncThrow>>,
                             <<syncThrow, asyncPositive>>,
                             <<ArraySchema(asyncPositive), ArraySchema(number)>>}}

\* schemas built with chaining calls, the receivers of one more
Receivers ==
  {string, StringSchema_min(string, 1), StringSchema_regex(StringSchema_max(string, 1), "letter"),
   number, NumberSchema_int(number), NumberSchema_max(NumberSchema_min(number, 0), 0),
   boolean,
   ObjectSchema(<<Field("a", number)>>, NoConfig),
   ObjectSchema(<<Field("a", number), Field("b", string)>>, With(NoConfig, "strict", TRUE)),
   ObjectSchema(<<Field("a", number), Field("b", string)>>, With(NoConfig, "passthrough", TRUE)),
   ObjectSchema(<<Field("a", number), Field("toString", number)>>, NoConfig),
   StringSchema_regex(string, "letter"), StringSchema_email(string), StringSchema_min(string, 2)}

\* primitives with several constraints, which one input can violate together
narrowString == StringSchema_regex(StringSchema_max(StringSchema_min(string, 2), 0), "letter")
shortWord == StringSchema_regex(StringSchema_min(string, 1), "letter")
narrowNumber == NumberSchema_max(NumberSchema_min(NumberSchema_int(number), 1), -1)
ConstrainedPrimitives == {narrowString, shortWord, narrowNumber, NumberSchema_min(NumberSchema_int(number), 1)}

\* S.nullable().optional(), S.optional().nullable() and S.nullish()
NullishForms(S) == {optional(nullable(S)), nullable(optional(S)), nullish(S)}

OrderSchemas ==
  UNION {NullishForms(S) : S \in {asyncPositive, DefaultSchema(number, DefaultValue(Num(1)))}}

Schemas == {string, number, boolean, enum} \cup WrapperSchemas \cup ArraySchemas
           \cup ObjectSchemas \cup UnionSchemas \cup Receivers \cup ConstrainedPrimitives
           \cup OrderSchemas

Atoms == {Undef, Null, Num(1), Num(0), NaN, Infinity, NegInfinity, Str(<<"x">>), Str(<<>>), Bool(TRUE),
          Str(<<"1", "@", "2", ".", "3">>)}

Elements == {Num(1), Num(0), Str(<<"x">>)}

SeqsUpTo(S, n) == UNION {[1..k -> S] : k \in 0..n}

ArrayInputs == {Arr(items) : items \in SeqsUpTo(Elements, MaxLen)}
               \cup {Arr(<<Num(1), Str(<<"x">>), Num(3), Str(<<"y">>)>>),
                     Arr(<<Arr(<<Num(1), Num(0)>>), Arr(<<Str(<<"x">>), Num(0)>>)>>),
                     Arr(<<Num(0), Str(<<"x">>), Num(0)>>),
                     Arr(<<Undef>>)}

\* an input object: each of the keys a, b, toString absent or present
Absent == [t |-> "absent"]
ObjectOf(a, b, c) ==
  Obj(SelectSeq(<<Entry("a", a), Entry("b", b), Entry("toString", c)>>, LAMBDA e : e.val # Absent))
ObjectInputs ==
  {ObjectOf(a, b, c) : a \in {Absent, Num(1), Num(0), Str(<<"x">>)},
                       b \in {Absent, Num(2), Str(<<"x">>), Arr(<<Num(0), Num(1), Num(0)>>)},
                       c \in {Absent, Num(3)}}

Inputs == Atoms \cup ArrayInputs \cup ObjectInputs

----------------------------------------------------------------------------
(* The state machine: one call of an entry point on a schema, followed by  *)
(* the settling of the pending computations it started                     *)

NoDerived == [made |-> FALSE]
NoCall == [made |-> FALSE]

Init ==
  /\ schema \in Schemas
  /\ pc = "idle"
  /\ entry = "none"
  /\ input = Undef
  /\ task = NoTask
  /\ outcome = NoOutcome
  /\ log = <<>>
  /\ settles = 0
  /\ derived = NoDerived
  /\ other = NoCall
  /\ lastIndex = 0

\* the root call this._parse(value, []) made by every entry point
Start(name, x, r) ==
  /\ pc = "idle"
  /\ entry' = name
  /\ input' = x
  /\ task' = r.r
  /\ log' = r.log
  /\ pc' = IF isPromise(r.r) THEN "pending" ELSE "settled"
  /\ UNCHANGED <<schema, settles, derived, other, lastIndex>>

parse ==
  \E x \in Inputs :
    LET r == Parse(schema, x, <<>>)
    IN Start("parse", x, r) /\ outcome' = parseOutcome(r.r)

safeParse ==
  \E x \in Inputs :
    LET r == Parse(schema, x, <<>>)
    IN Start("safeParse", x, r) /\ outcome' = safeParseOutcome(r.r)

parseAsync ==
  \E x \in Inputs :
    LET r == Parse(schema, x, <<>>)
    IN Start("parseAsync", x, r) /\ outcome' = Deliver("parseAsync", r.r)

safeParseAsync ==
  \E x \in Inputs :
    LET r == Parse(schema, x, <<>>)
    IN Start("safeParseAsync", x, r) /\ outcome' = Deliver("safeParseAsync", r.r)

\* a chaining call on the schema returns a new instance; the receiver is not assigned
chain ==
  /\ pc = "idle" /\ ~derived.made /\ schema \in Receivers
  /\ \E c \in Chainers(schema) :
       derived' = [made |-> TRUE, call |-> c, receiver |-> schema, instance |-> Chain(schema, c), inUse |-> FALSE]
  /\ UNCHANGED <<schema, pc, entry, input, task, outcome, log, settles, other, lastIndex>>

\* the following calls are made on the instance the chaining call returned
useDerived ==
  /\ pc = "idle" /\ derived.made /\ ~derived.inUse
  /\ schema' = derived.instance
  /\ derived' = [derived EXCEPT !.inUse = TRUE]
  /\ UNCHANGED <<pc, entry, input, task, outcome, log, settles, other, lastIndex>>

\* a second call of parse, on the value the first call returned
parseAgain ==
  /\ pc = "settled" /\ entry = "parse" /\ outcome.how = "returned"
  /\ LET r == Parse(schema, outcome.v, <<>>)
     IN /\ entry' = "parseAgain"
        /\ input' = outcome.v
        /\ task' = r.r
        /\ log' = r.log
        /\ pc' = IF isPromise(r.r) THEN "pending" ELSE "settled"
        /\ outcome' = parseOutcome(r.r)
  /\ settles' = 0
  /\ UNCHANGED <<schema, derived, other, lastIndex>>

\* one pending user computation settles; the handlers chained on it run
Settle ==
  /\ pc = "pending"
  /\ \E pos \in Leaves(task) :
       LET r == SettleAt(task, pos)
       IN /\ task' = r.r
          /\ log' = log \o r.log
          /\ pc' = IF isPromise(r.r) THEN "pending" ELSE "settled"
          /\ outcome' = IF entry \in {"parseAsync", "safeParseAsync"} THEN Deliver(entry, r.r) ELSE outcome
  /\ settles' = settles + 1
  /\ UNCHANGED <<schema, entry, input, derived, other, lastIndex>>

Next == chain \/ useDerived \/ parse \/ safeParse \/ parseAsync \/ safeParseAsync \/ parseAgain \/ Settle

Spec == Init /\ [][Next]_vars

----------------------------------------------------------------------------
(* Two calls on one schema instance: the second is made while the first is *)
(* in flight or after it; their pending computations settle in any order   *)

\* the pattern /x/g: a RegExp with the g flag
IsGlobal(re) == re = "x/g"

\* re.test(chars) on a RegExp object whose lastIndex is li. Without the g flag
\* lastIndex is neither read nor written; with it the search starts at li, a
\* match leaves lastIndex after the match and no match resets it to 0.
RegExpTest(re, li, chars) ==
  IF ~IsGlobal(re) THEN [ok |-> RegexTest(re, chars), lastIndex |-> li]
  ELSE LET hits == {i \in (li + 1)..Len(chars) : chars[i] = "x"}
       IN IF hits = {} THEN [ok |-> FALSE, lastIndex |-> 0]
          ELSE [ok |-> TRUE, lastIndex |-> CHOOSE m \in hits : \A n \in hits : m <= n]

\* StringSchema._parse on the instance's RegExp object: re.test runs only when
\* the checks before it pass
StringParseAt(s, v, path, li) ==
  IF /\ TypeOf(v) = "string"
     /\ ~(Has(s.config, "min") /\ Len(v.s) < s.config.min)
     /\ ~(Has(s.config, "max") /\ Len(v.s) > s.config.max)
     /\ Has(s.config, "re")
  THEN LET t == RegExpTest(s.config.re, li, v.s)
       IN [r |-> IF t.ok THEN Val(v) ELSE StringFail(path, "invalid_string", "Regex mismatch"),
           lastIndex |-> t.lastIndex]
  ELSE [r |-> StringParse(s, v, path), lastIndex |-> li]

\* the root call this._parse(x, []) on an instance whose RegExp has lastIndex li
RootParse(s, x, li) ==
  IF s.kind = "string"
  THEN LET e == StringParseAt(s, x, <<>>, li)
       IN [r |-> e.r, log |-> <<ParseEv(s, x, <<>>, e.r)>>, lastIndex |-> e.lastIndex]
  ELSE LET e == Parse(s, x, <<>>)
       IN [r |-> e.r, log |-> e.log, lastIndex |-> li]

\* what entry point e hands to its caller for the root result r
EntryOutcome(e, r) ==
  CASE e = "parse" -> parseOutcome(r)
    [] e = "safeParse" -> safeParseOutcome(r)
    [] OTHER -> Deliver(e, r)

asyncNever == RefinementSchema(string, Predicate("async", "never"), NoMessage)

SharedSchemas ==
  {StringSchema_regex(string, "x/g"),
   StringSchema_regex(StringSchema_min(string, 1), "letter"),
   ArraySchema(asyncPositive),
   ObjectSchema(<<Field("a", asyncPositive), Field("b", string)>>, NoConfig),
   UnionSchema(<<asyncPositive, asyncNever>>)}

CallEntries == {"parse", "safeParse", "parseAsync", "safeParseAsync"}

CallInputs ==
  {Str(<<"x">>), Str(<<"x", "x">>), Num(1), Num(0),
   Arr(<<Num(1), Num(0)>>), Arr(<<Num(0), Str(<<"x">>)>>),
   Obj(<<Entry("a", Num(0))>>), Obj(<<Entry("a", Num(1)), Entry("b", Str(<<"x">>))>>)}

InitCalls ==
  /\ schema \in SharedSchemas
  /\ pc = "idle"
  /\ entry = "none"
  /\ input = Undef
  /\ task = NoTask
  /\ outcome = NoOutcome
  /\ log = <<>>
  /\ settles = 0
  /\ derived = NoDerived
  /\ other = NoCall
  /\ lastIndex = 0

firstCall ==
  /\ pc = "idle"
  /\ \E e \in CallEntries, x \in CallInputs :
       LET r == RootParse(schema, x, lastIndex)
       IN /\ entry' = e
          /\ input' = x
          /\ task' = r.r
          /\ log' = r.log
          /\ pc' = IF isPromise(r.r) THEN "pending" ELSE "settled"
          /\ outcome' = EntryOutcome(e, r.r)
          /\ lastIndex' = r.lastIndex
  /\ UNCHANGED <<schema, settles, derived, other>>

\* the same instance is called again, while the first call is pending or after it
secondCall ==
  /\ pc \in {"pending", "settled"} /\ ~other.made
  /\ \E e \in CallEntries, x \in CallInputs :
       LET r == RootParse(schema, x, lastIndex)
       IN /\ other' = [made |-> TRUE, entry |-> e, input |-> x, task |-> r.r,
                       outcome |-> EntryOutcome(e, r.r), inFlight |-> pc = "pending"]
          /\ log' = log \o r.log
          /\ lastIndex' = r.lastIndex
  /\ UNCHANGED <<schema, pc, entry, input, task, outcome, settles, derived>>

\* the first call's root result becomes r.r and its entry point delivers
FirstSettled(r) ==
  /\ task' = r.r
  /\ log' = log \o r.log
  /\ pc' = IF isPromise(r.r) THEN "pending" ELSE "settled"
  /\ outcome' = IF entry \in {"parseAsync", "safeParseAsync"} THEN Deliver(entry, r.r) ELSE outcome

\* one pending user computation of the first call settles
SettleFirst ==
  /\ pc = "pending"
  /\ \E pos \in Leaves(task) : FirstSettled(SettleAt(task, pos))
  /\ settles' = settles + 1
  /\ UNCHANGED <<schema, entry, input, derived, other, lastIndex>>

\* the second call's root result becomes r.r and its entry point delivers
OtherSettled(r) ==
  /\ other' = [made |-> TRUE, entry |-> other.entry, input |-> other.input, task |-> r.r,
               outcome |-> IF other.entry \in {"parseAsync", "safeParseAsync"}
                           THEN Deliver(other.entry, r.r) ELSE other.outcome,
               inFlight |-> other.inFlight]
  /\ log' = log \o r.log

\* one pending user computation of the second call settles
SettleOther ==
  /\ other.made /\ isPromise(other.task)
  /\ \E pos \in Leaves(other.task) : OtherSettled(SettleAt(other.task, pos))
  /\ settles' = settles + 1
  /\ UNCHANGED <<schema, pc, entry, input, task, outcome, derived, lastIndex>>

NextCalls == firstCall \/ secondCall \/ SettleFirst \/ SettleOther

SpecCalls == InitCalls /\ [][NextCalls]_vars

----------------------------------------------------------------------------
(* Helpers of the properties *)

Called == pc # "idle"

\* the root call returned a promise
RootPending ==
  \E i \in 1..Len(log) : log[i] = ParseEv(schema, input, <<>>, Leaf(Val(Undef)))

\* some _parse call of the subtree returned a promise
SomePending == \E i \in 1..Len(log) : log[i].ev = "_parse" /\ log[i].ret = "promise"

\* a union returned a synchronous value after one of its candidates returned a promise
UnionDiscardedPending ==
  \E j \in 1..Len(log) :
    /\ log[j].ev = "_parse" /\ log[j].s.kind = "union" /\ log[j].ret = "val"
    /\ \E i \in 1..(j - 1) :
         /\ log[i].ev = "_parse" /\ log[i].ret = "promise"
         /\ log[i].path = log[j].path /\ log[i].v = log[j].v
         /\ log[i].s \in SeqRange(log[j].s.candidates)

IsSafeParseResult(r) ==
  /\ "success" \in DOMAIN r
  /\ IF r.success THEN DOMAIN r = {"success", "data"}
     ELSE DOMAIN r = {"success", "error"} /\ isValidationError(r.error)

----------------------------------------------------------------------------
(* C1 .. C4: the entry points *)

\* C1: safeParse always returns a result record, {success:true,data} or
\* {success:false,error} with error a ValidationError, and never raises;
\* safeParseAsync never rejects and, once the validation has settled, has
\* resolved to such a record.
C1_SafeParseNeverRaises ==
  /\ entry = "safeParse" => outcome.how = "returned" /\ IsSafeParseResult(outcome.v)
  /\ entry = "safeParseAsync" =>
       /\ outcome.how \in {"none", "fulfilled"}
       /\ pc = "settled" => outcome.how = "fulfilled" /\ IsSafeParseResult(outcome.v)

\* C1 witness: safeParseAsync resolved to a failure after user code rejected with a plain Error
C1_Witness ==
  /\ entry = "safeParseAsync" /\ pc = "settled" /\ settles > 0
  /\ task.k = "err" /\ task.e.k = "Error"
  /\ outcome.how = "fulfilled" /\ ~outcome.v.success

C3_ParseRaisesOnlyValidationOrAsyncError ==
  entry = "parse" =>
    \/ outcome.how = "returned"
    \/ outcome.how = "raised" /\ outcome.e.k \in {"ValidationError", "AsyncParseError"}

\* C4: the safe entry points return a raised ValidationError unchanged and turn
\* any other raised error into a ValidationError with the single issue
\* {path: [], code: custom, message: the error's message or 'Unknown error'};
\* safeParse on a pending validation fails with the AsyncParseError message.
C4_SafeParseNormalizesErrors ==
  LET OneCustom(msg) == ValidationError(<<Issue(<<>>, "custom", msg)>>)
      Normal(e) == IF e.k = "ValidationError" THEN e
                   ELSE IF e.k = "thrown" THEN OneCustom("Unknown error")
                   ELSE OneCustom(e.message)
  IN /\ (entry = "safeParse" /\ RootPending) =>
          outcome = Returned(Failure(OneCustom("Encountered async validations; use parseAsync()")))
     /\ (entry = "safeParse" /\ ~RootPending /\ task.k = "err") =>
          outcome = Returned(Failure(Normal(task.e)))
     /\ (entry = "safeParseAsync" /\ pc = "settled" /\ task.k = "err") =>
          outcome = Fulfilled(Failure(Normal(task.e)))

\* C4 witness: safeParse returned the one-issue failure for a pending validation
C4_Witness ==
  /\ entry = "safeParse" /\ RootPending
  /\ outcome.how = "returned" /\ ~outcome.v.success
  /\ Len(outcome.v.error.issues) = 1
  /\ outcome.v.error.issues[1].message = AsyncParseError.message

----------------------------------------------------------------------------
(* Helpers of the properties on composites *)

\* a promise term run to completion (its pending computations settle leftmost first)
RECURSIVE Final(_)
Final(t) ==
  IF IsSettled(t) THEN t
  ELSE Final(SettleAt(t, CHOOSE pos \in Leaves(t) : TRUE).r)

\* the issues a failure contributes to an aggregate
IssuesOf(e) == IF isValidationError(e) THEN e.issues ELSE <<Issue(<<>>, "custom", MessageOrString(e))>>

Count(seq, x) == Cardinality({i \in 1..Len(seq) : seq[i] = x})
SameBag(a, b) == Len(a) = Len(b) /\ \A i \in 1..Len(a) : Count(a, a[i]) = Count(b, a[i])

RECURSIVE Flatten(_)
Flatten(seqs) == IF seqs = <<>> THEN <<>> ELSE Head(seqs) \o Flatten(Tail(seqs))

\* paths at which a validator is placed
SamplePaths == {<<>>, <<Key("a")>>, <<Idx(1), Key("b")>>}

\* the outcome of element i of the input array, validated alone at path p ++ [i]
ElementSync(p, i) == Parse(schema.inner, input.items[i], pushPath(p, Idx(i - 1)))
ElementFinal(i) == Final(ElementSync(<<>>, i).r)

\* the outcome of declared field i, validated alone at path [key]
FieldFinal(i) ==
  Final(Parse(schema.shape[i].schema, GetProp(input.entries, schema.shape[i].key),
              <<Key(schema.shape[i].key)>>).r)

IsStrict(s) == Has(s.config, "strict") /\ s.config.strict
IsPassthrough(s) == Has(s.config, "passthrough") /\ s.config.passthrough

----------------------------------------------------------------------------
(* C5 .. C7: array and object *)

\* C5: at any path p a non-array input raises exactly one invalid_array issue
\* at p without invoking the inner schema; for an array input every element i
\* is validated with the inner schema at p ++ [i], also after a failing
\* element, and the array fails exactly when some element contributes an
\* issue, with an aggregate holding the issues of every failing element and
\* nothing else.
C5_ArrayCollectsEveryElementFailure ==
  (schema.kind = "array" /\ Called) =>
    /\ \A p \in SamplePaths :
         LET e == Parse(schema, input, p)
         IN IF input.t # "array"
            THEN /\ e.r = Thr(ValidationError(<<Issue(p, "invalid_array", "Expected array")>>))
                 /\ e.log = <<ParseEv(schema, input, p, e.r)>>
            ELSE \A i \in 1..Len(input.items) :
                   \E j \in 1..Len(e.log) :
                     e.log[j] = ParseEv(schema.inner, input.items[i], pushPath(p, Idx(i - 1)),
                                        ElementSync(p, i).r)
    /\ (input.t = "array" /\ pc = "settled") =>
         LET failing == SelectSeq([i \in 1..Len(input.items) |-> ElementFinal(i)],
                                  LAMBDA r : r.k = "err")
             expected == Flatten([i \in 1..Len(failing) |-> IssuesOf(failing[i].e)])
         IN /\ task.k = "err" <=> expected # <<>>
            /\ task.k = "err" => isValidationError(task.e) /\ SameBag(task.e.issues, expected)

\* C5 witness: array(number()) on [1,"x",3,"y"] failed with invalid_type at [1] and [3]
C5_Witness ==
  /\ schema = ArraySchema(number) /\ entry = "safeParse"
  /\ input = Arr(<<Num(1), Str(<<"x">>), Num(3), Str(<<"y">>)>>)
  /\ outcome = Returned(Failure(ValidationError(
       <<Issue(<<Idx(1)>>, "invalid_type", "Expected number"),
         Issue(<<Idx(3)>>, "invalid_type", "Expected number")>>)))

\* C6: a successful object validation outputs, in default mode, declared
\* fields only, each with its validated value, and in passthrough mode also
\* every undeclared input key with its raw value; every field that validated
\* is in the output.  A non-object input raises exactly one invalid_object
\* issue at the current path and validates no field.
C6_ObjectOutputByMode ==
  (schema.kind = "object" /\ Called) =>
    /\ input.t # "object" =>
         \A p \in SamplePaths :
           LET e == Parse(schema, input, p)
           IN /\ e.r = Thr(ValidationError(<<Issue(p, "invalid_object", "Expected object")>>))
              /\ e.log = <<ParseEv(schema, input, p, e.r)>>
    /\ (input.t = "object" /\ pc = "settled" /\ task.k = "val") =>
         LET out == task.v.entries
             declared == SeqRange(ShapeKeys(schema.shape))
             outKeys == SeqRange(ObjectKeys(out))
             unknown == SeqRange(ObjectKeys(input.entries)) \ declared
         IN /\ task.v.t = "object"
            /\ Len(out) = Cardinality(outKeys)
            /\ outKeys \subseteq declared \cup (IF IsPassthrough(schema) THEN unknown ELSE {})
            /\ IsPassthrough(schema) => unknown \subseteq outKeys
            /\ \A k \in outKeys \ declared : GetProp(out, k) = GetProp(input.entries, k)
            /\ \A i \in 1..Len(schema.shape) :
                 LET k == schema.shape[i].key
                 IN /\ FieldFinal(i).k = "val" => k \in outKeys
                    /\ k \in outKeys => FieldFinal(i) = Val(GetProp(out, k))

\* C6 witness: {a: number()}.passthrough() on {a:1, b:2} succeeded with {a:1, b:2}
C6_Witness ==
  /\ schema = ObjectSchema(<<Field("a", number)>>, With(NoConfig, "passthrough", TRUE))
  /\ input = Obj(<<Entry("a", Num(1)), Entry("b", Num(2))>>)
  /\ task = Val(Obj(<<Entry("a", Num(1)), Entry("b", Num(2))>>))

\* C7: in strict mode every own key of the input that is not a declared field
\* produces exactly one unrecognized_keys issue at p ++ [key], no declared key
\* produces one, and the validation fails whenever such a key exists.
C7_StrictReportsEveryUndeclaredKey ==
  (schema.kind = "object" /\ IsStrict(schema) /\ input.t = "object" /\ pc = "settled") =>
    LET declared == SeqRange(ShapeKeys(schema.shape))
        issues == IF task.k = "err" /\ isValidationError(task.e) THEN task.e.issues ELSE <<>>
        Reported(key) == {i \in 1..Len(issues) :
                            issues[i].code = "unrecognized_keys" /\ issues[i].path = <<Key(key)>>}
    IN \A key \in SeqRange(ObjectKeys(input.entries)) :
         IF key \in declared THEN Reported(key) = {}
         ELSE task.k = "err" /\ Cardinality(Reported(key)) = 1

----------------------------------------------------------------------------
(* C8 .. C10: union, and the order of issues *)

\* candidate i of the union validated alone with the input at path p
CandidateSync(p, i) == Parse(schema.candidates[i], input, p)
CandidateFinal(i) == Final(CandidateSync(<<>>, i).r)

\* the candidates that returned a value synchronously, failed synchronously, are pending
SyncSucceeded(p) == {i \in 1..Len(schema.candidates) : CandidateSync(p, i).r.k = "val"}
Deferred == {i \in 1..Len(schema.candidates) : isPromise(CandidateSync(<<>>, i).r)}
Min(S) == CHOOSE m \in S : \A n \in S : m <= n

\* the issues of the candidates of S that failed, one block per candidate, in declaration order
FailureBlocks(S) ==
  LET all == [i \in 1..Len(schema.candidates) |->
                IF i \in S /\ CandidateFinal(i).k = "err" THEN IssuesOf(CandidateFinal(i).e) ELSE <<>>]
  IN SelectSeq(all, LAMBDA b : b # <<>>)

\* issues is the concatenation of the blocks, each up to the order inside the block
RECURSIVE BlocksMatch(_, _)
BlocksMatch(issues, blocks) ==
  IF blocks = <<>> THEN issues = <<>>
  ELSE /\ Len(issues) >= Len(Head(blocks))
       /\ SameBag(SubSeq(issues, 1, Len(Head(blocks))), Head(blocks))
       /\ BlocksMatch(SubSeq(issues, Len(Head(blocks)) + 1, Len(issues)), Tail(blocks))

\* number of settlements that complete a promise term
RECURSIVE StepsOf(_)
StepsOf(t) ==
  IF IsSettled(t) THEN 0
  ELSE 1 + StepsOf(SettleAt(t, CHOOSE pos \in Leaves(t) : TRUE).r)

RECURSIVE Sum(_)
Sum(seq) == IF seq = <<>> THEN 0 ELSE Head(seq) + Sum(Tail(seq))

\* C8: the candidates are tried in declaration order with the same value at
\* the same path p; the first one that returns a value synchronously is the
\* union's result, returned at once (also after pending candidates) with no
\* later candidate invoked; when every candidate fails synchronously the
\* union raises one aggregate with the issues of every candidate in
\* declaration order.
C8_UnionShortCircuitsOnFirstSyncSuccess ==
  (schema.kind = "union" /\ Called) =>
    /\ \A p \in SamplePaths :
         LET e == Parse(schema, input, p)
             n == Len(schema.candidates)
             tried == IF SyncSucceeded(p) = {} THEN n ELSE Min(SyncSucceeded(p))
         IN /\ e.log = Flatten([i \in 1..tried |-> CandidateSync(p, i).log])
                         \o <<ParseEv(schema, input, p, e.r)>>
            /\ SyncSucceeded(p) # {} => e.r = CandidateSync(p, tried).r
            /\ (\A i \in 1..n : CandidateSync(p, i).r.k = "err") =>
                 e.r = Thr(ValidationError(
                         Flatten([i \in 1..n |-> IssuesOf(CandidateSync(p, i).r.e)])))
    /\ SyncSucceeded(<<>>) # {} =>
         /\ pc = "settled" /\ settles = 0
         /\ task = CandidateSync(<<>>, Min(SyncSucceeded(<<>>))).r
         /\ log = Parse(schema, input, <<>>).log

\* C8 witness: union([refine(async positive), number()]) on 0 returned 0 at
\* once although its first candidate is pending
C8_Witness ==
  /\ schema = UnionSchema(<<asyncPositive, number>>)
  /\ input = Num(0) /\ entry = "parse"
  /\ outcome = Returned(Num(0)) /\ settles = 0
  /\ \E i \in 1..Len(log) : log[i].ev = "_parse" /\ log[i].ret = "promise"

\* C9: a union without synchronous success and with pending candidates
\* settles only when all its pending candidates have settled; it then holds
\* the value of the first pending candidate, in declaration order, that
\* succeeded, and fails only if none succeeded, with the synchronous failures
\* followed by the deferred failures in declaration order.
C9_UnionWaitsForAllDeferred ==
  (schema.kind = "union" /\ Called /\ SyncSucceeded(<<>>) = {} /\ Deferred # {}) =>
    LET total == Sum([i \in 1..Len(schema.candidates) |-> StepsOf(CandidateSync(<<>>, i).r)])
        succeeded == {i \in Deferred : CandidateFinal(i).k = "val"}
    IN /\ pc = "settled" <=> settles = total
       /\ settles < total => pc = "pending" /\ isPromise(task)
       /\ pc = "settled" =>
            IF succeeded # {} THEN task = CandidateFinal(Min(succeeded))
            ELSE /\ task.k = "err" /\ isValidationError(task.e)
                 /\ BlocksMatch(task.e.issues,
                                FailureBlocks((1..Len(schema.candidates)) \ Deferred)
                                  \o FailureBlocks(Deferred))

\* C9 witness: of three pending candidates the first failed and the two
\* others succeeded with different values; the union holds the second one's
C9_Witness ==
  /\ schema = UnionSchema(<<asyncThrow, asyncPositive, asyncIncrement>>)
  /\ input = Num(1) /\ pc = "settled" /\ settles = 3
  /\ task = Val(Num(1)) /\ CandidateFinal(3) = Val(Num(2))

\* position of the child an issue of an array or object aggregate belongs to;
\* 0 for an issue that names no child
ChildOf(issue) ==
  IF issue.path = <<>> THEN 0
  ELSE IF schema.kind = "array" THEN issue.path[1].i + 1
  ELSE LET keys == ShapeKeys(schema.shape)
           at == {i \in 1..Len(keys) : Key(keys[i]) = issue.path[1]}
       IN IF at = {} THEN 0 ELSE Min(at)

\* C10: the issues of the aggregate of an array or object validator follow
\* the index or declaration order of the failing children for every
\* settlement order: an issue of child i never comes after an issue of a
\* child j > i.
C10_IssuesInDeclarationOrder ==
  (schema.kind \in {"array", "object"} /\ pc = "settled"
     /\ task.k = "err" /\ isValidationError(task.e)) =>
    \A a, b \in 1..Len(task.e.issues) :
      (a < b /\ ChildOf(task.e.issues[a]) # 0 /\ ChildOf(task.e.issues[b]) # 0)
        => ChildOf(task.e.issues[a]) <= ChildOf(task.e.issues[b])

----------------------------------------------------------------------------
(* C11 .. C13: merge, idempotence, the optional / nullable / nullish wrappers *)

\* the issues the failure e of the validation at path p is said to contribute
IssuesAt(e, p) == IF isValidationError(e) THEN e.issues ELSE <<Issue(p, "custom", MessageOrString(e))>>

\* C11: merging a ValidationError appends its issues in their order, merging
\* any other failure appends exactly one custom issue at the path of the
\* validation that failed (for element i of an array at path p, p ++ [i]);
\* hasIssues is true exactly when the issue list is not empty.
C11_MergeKeepsPathOfFailure ==
  /\ Called => \A p \in SamplePaths :
       LET e == Parse(schema, input, p).r
           before == <<Issue(<<Key("z")>>, "custom", "earlier")>>
       IN e.k = "err" =>
            /\ merge(before, e.e) = before \o IssuesAt(e.e, p)
            /\ hasIssues(merge(<<>>, e.e)) <=> merge(<<>>, e.e) # <<>>
  /\ (schema.kind = "array" /\ input.t = "array" /\ pc = "settled") =>
       LET failing == {i \in 1..Len(input.items) : ElementFinal(i).k = "err"}
           expected == Flatten([i \in 1..Len(input.items) |->
                         IF i \in failing THEN IssuesAt(ElementFinal(i).e, <<Idx(i - 1)>>) ELSE <<>>])
       IN task.k = "err" => isValidationError(task.e) /\ SameBag(task.e.issues, expected)

\* a transform occurs in schema s
RECURSIVE HasTransform(_)
HasTransform(s) ==
  CASE s.kind = "transform" -> TRUE
    [] s.kind \in {"array", "refine", "default", "optional", "nullable", "nullish"} -> HasTransform(s.inner)
    [] s.kind = "object" -> \E i \in 1..Len(s.shape) : HasTransform(s.shape[i].schema)
    [] s.kind = "union" -> \E i \in 1..Len(s.candidates) : HasTransform(s.candidates[i])
    [] OTHER -> FALSE

Accepts(s, v) ==
  CASE s.kind = "optional" -> v = Undef
    [] s.kind = "nullable" -> v = Null
    [] s.kind = "nullish" -> v \in {Null, Undef}
    [] OTHER -> FALSE

\* C13: optional returns undefined for undefined, nullable null for null,
\* nullish the input for both, each without invoking the inner schema; for
\* every other input the wrapper's outcome (value, pending computation or
\* failure) is that of the inner schema at the same path.  So
\* string().nullable().optional() gives null on null, undefined on undefined,
\* "x" on "x", and one invalid_type issue at the root path on a number.
C13_WrappersAcceptOrDelegate ==
  (schema.kind \in {"optional", "nullable", "nullish"} /\ Called) =>
    /\ \A p \in SamplePaths :
         LET e == Parse(schema, input, p)
             inner == Parse(schema.inner, input, p)
             own == <<ParseEv(schema, input, p, e.r)>>
         IN IF Accepts(schema, input)
            THEN e.r = Val(input) /\ e.log = own
            ELSE e.r = inner.r /\ e.log = inner.log \o own
    /\ pc = "settled" =>
         task = IF Accepts(schema, input) THEN Val(input)
                ELSE Final(Parse(schema.inner, input, <<>>).r)
    /\ (schema = OptionalSchema(NullableSchema(string)) /\ entry = "parse") =>
         outcome = CASE input \in {Null, Undef} -> Returned(input)
                     [] input.t = "string" -> Returned(input)
                     [] OTHER -> Raised(ValidationError(
                                   <<Issue(<<>>, "invalid_type", "Expected string")>>))

\* C13 witness: string().nullable().optional() returned null for null
C13_Witness ==
  /\ schema = OptionalSchema(NullableSchema(string))
  /\ entry = "parse" /\ input = Null /\ outcome = Returned(Null)
  /\ Len(log) = 2

----------------------------------------------------------------------------
(* C14 .. C17: refine, transform, default *)

\* positions in the log of the calls of the root schema's own user function
OwnCalls(what) == {i \in 1..Len(log) : log[i].ev = what /\ log[i].s = schema}

\* positions in the log of the inner schema's _parse calls made by the root schema
InnerCalls(v) ==
  {i \in 1..Len(log) : log[i] = [ev |-> "_parse", s |-> schema.inner, v |-> v,
                                 path |-> <<>>, ret |-> log[i].ret]}

\* the failure of a refinement at path p
RefinementFailure(p) ==
  Thr(ValidationError(<<Issue(p, "custom",
        IF schema.message.given THEN schema.message.text ELSE "Refinement failed")>>))

\* C14: refine validates with the inner schema first; an inner failure is
\* propagated unchanged and the predicate is not invoked; on an inner value v
\* a truthy result of the predicate gives v itself, a falsy or void result
\* raises exactly one custom issue at the current path with the given
\* message, or 'Refinement failed' when none was given.
C14_RefineChecksAfterInner ==
  (schema.kind = "refine" /\ Called) =>
    /\ \A p \in SamplePaths :
         LET e == Parse(schema, input, p)
             inner == Parse(schema.inner, input, p)
             result == PredicateOutcome(schema.predicate, inner.r.v)
         IN /\ inner.r.k = "err" => e.r = inner.r /\ e.log = inner.log \o <<ParseEv(schema, input, p, e.r)>>
            /\ (inner.r.k = "val" /\ schema.predicate.mode = "sync" /\ result.k = "val") =>
                 e.r = IF Truthy(result.v) THEN inner.r ELSE RefinementFailure(p)
    /\ pc = "settled" =>
         LET inner == Final(Parse(schema.inner, input, <<>>).r)
             result == PredicateOutcome(schema.predicate, inner.v)
         IN /\ InnerCalls(input) # {}
            /\ \A i \in OwnCalls("predicate") : \A j \in InnerCalls(input) : j < i
            /\ inner.k = "err" => task = inner /\ OwnCalls("predicate") = {}
            /\ inner.k = "val" =>
                 /\ Cardinality(OwnCalls("predicate")) = 1
                 /\ \A i \in OwnCalls("predicate") : log[i].v = inner.v
                 /\ result.k = "val" =>
                      task = IF Truthy(result.v) THEN inner ELSE RefinementFailure(<<>>)

\* C14 witness: number().refine(n => n > 0, 'must be positive') on 0 failed
\* with the given message after one call of the predicate
C14_Witness ==
  /\ schema = RefinementSchema(number, Predicate("sync", "positive"), Message("must be positive"))
  /\ input = Num(0) /\ entry = "parse"
  /\ outcome = Raised(ValidationError(<<Issue(<<>>, "custom", "must be positive")>>))
  /\ Cardinality(OwnCalls("predicate")) = 1

\* r is a failure with exactly one custom issue, at path p
IsOneCustomIssueAt(r, p) ==
  /\ r.k = "err" /\ isValidationError(r.e)
  /\ Len(r.e.issues) = 1
  /\ r.e.issues[1].code = "custom" /\ r.e.issues[1].path = p

\* C15: transform validates with the inner schema first and applies fn only
\* to a validated value; an inner failure is propagated unchanged without
\* invoking fn; a result of fn is the outcome; an error of fn, thrown or
\* delivered by a rejected pending computation, becomes a ValidationError
\* with exactly one custom issue at the current path.
C15_TransformWrapsErrorsOfFn ==
  (schema.kind = "transform" /\ Called) =>
    /\ \A p \in SamplePaths :
         LET e == Parse(schema, input, p)
             inner == Parse(schema.inner, input, p)
             out == TransformOutcome(schema.fn, inner.r.v)
         IN /\ inner.r.k = "err" => e.r = inner.r /\ e.log = inner.log \o <<ParseEv(schema, input, p, e.r)>>
            /\ (inner.r.k = "val" /\ schema.fn.mode = "sync") =>
                 IF out.k = "val" THEN e.r = out ELSE IsOneCustomIssueAt(e.r, p)
    /\ pc = "settled" =>
         LET inner == Final(Parse(schema.inner, input, <<>>).r)
             out == TransformOutcome(schema.fn, inner.v)
         IN /\ InnerCalls(input) # {}
            /\ \A i \in OwnCalls("transform") : \A j \in InnerCalls(input) : j < i
            /\ inner.k = "err" => task = inner /\ OwnCalls("transform") = {}
            /\ inner.k = "val" =>
                 /\ Cardinality(OwnCalls("transform")) = 1
                 /\ \A i \in OwnCalls("transform") : log[i].v = inner.v
                 /\ IF out.k = "val" THEN task = out ELSE IsOneCustomIssueAt(task, <<>>)

\* C15 witness: a transform whose function rejected asynchronously ended,
\* under parseAsync, with one custom issue at the root path
C15_Witness ==
  /\ schema = TransformSchema(number, TransformFn("async", "throw"))
  /\ input = Num(1) /\ entry = "parseAsync" /\ settles = 1
  /\ outcome = Rejected(ValidationError(<<Issue(<<>>, "custom", "transform failed")>>))

\* C16: for input undefined the default is resolved (a supplier is invoked
\* once, and awaited when pending) and the resolved default, not the input,
\* is validated by the inner schema, so an invalid default fails; for any
\* other input, null included, the supplier is not invoked and the input
\* itself is validated by the inner schema.
C16_DefaultReplacesUndefinedOnly ==
  (schema.kind = "default" /\ Called) =>
    LET d == schema.defaultSource
        resolves == ~d.isFn \/ ~d.fails
    IN IF input # Undef
       THEN /\ \A p \in SamplePaths :
                 LET e == Parse(schema, input, p)
                     inner == Parse(schema.inner, input, p)
                 IN e.r = inner.r /\ e.log = inner.log \o <<ParseEv(schema, input, p, e.r)>>
            /\ OwnCalls("supplier") = {}
            /\ pc = "settled" => task = Final(Parse(schema.inner, input, <<>>).r)
       ELSE /\ Cardinality(OwnCalls("supplier")) = (IF d.isFn THEN 1 ELSE 0)
            /\ InnerCalls(Undef) = {}
            /\ \A i \in OwnCalls("supplier") : \A j \in InnerCalls(d.value) : i < j
            /\ (d.isFn /\ d.mode = "async" /\ settles = 0) =>
                 pc = "pending" /\ InnerCalls(d.value) = {}
            /\ (resolves /\ pc = "settled") =>
                 /\ InnerCalls(d.value) # {}
                 /\ task = Final(Parse(schema.inner, d.value, <<>>).r)

\* C16 witness: number().default("x") on undefined failed with invalid_type:
\* the default was validated
C16_Witness ==
  /\ schema = DefaultSchema(number, DefaultValue(Str(<<"x">>)))
  /\ input = Undef /\ entry = "parse"
  /\ outcome = Raised(ValidationError(<<Issue(<<>>, "invalid_type", "Expected number")>>))

\* the own step of a wrapper, as it is named in the log
WrapperStep ==
  CASE schema.kind = "refine" -> "predicate"
    [] schema.kind = "transform" -> "transform"
    [] schema.kind = "default" -> "supplier"
    [] OTHER -> "none"

\* what the root wrapper hands to its inner schema, and what the inner schema makes of it
InnerInput == IF schema.kind = "default" /\ input = Undef THEN schema.defaultSource.value ELSE input
InnerResult == Parse(schema.inner, InnerInput, <<>>).r

\* the own step of the wrapper was called asynchronously, or will be
StepIsPending ==
  CASE schema.kind = "refine" -> Final(InnerResult).k = "val" /\ schema.predicate.mode = "async"
    [] schema.kind = "transform" -> Final(InnerResult).k = "val" /\ schema.fn.mode = "async"
    [] schema.kind = "default" ->
         input = Undef /\ schema.defaultSource.isFn /\ schema.defaultSource.mode = "async"
    [] OTHER -> FALSE

\* the inner schema is called, or will be
InnerIsCalled ==
  CASE schema.kind = "default" ->
         input # Undef \/ ~schema.defaultSource.isFn \/ ~schema.defaultSource.fails
    [] schema.kind \in {"optional", "nullable", "nullish"} -> ~Accepts(schema, input)
    [] OTHER -> TRUE

\* the settlements the wrapper waits for
WrapperSteps ==
  (IF InnerIsCalled THEN StepsOf(InnerResult) ELSE 0) + (IF StepIsPending THEN 1 ELSE 0)

\* a pending inner validation or own step makes the wrapper's result pending
\* until both have resolved, and parse raises AsyncParseError; a refine with
\* a pending predicate ends under parseAsync with the value or one custom issue
PendingnessPropagates ==
  /\ settles < WrapperSteps => pc = "pending" /\ isPromise(task)
  /\ (WrapperSteps > 0 /\ entry \in {"parse", "parseAgain"}) => outcome = Raised(AsyncParseError)
  /\ (schema = asyncPositive /\ entry = "parseAsync" /\ input.t = "number" /\ input.kind = "finite") =>
       outcome = IF pc = "pending" THEN NoOutcome
                 ELSE IF IsPositive(input) THEN Fulfilled(input)
                 ELSE Rejected(ValidationError(<<Issue(<<>>, "custom", "Refinement failed")>>))

\* the own step runs only after the inner validation was started and has resolved
StepAfterInner ==
  /\ \A i \in OwnCalls(WrapperStep) :
       InnerCalls(InnerInput) # {} /\ \A j \in InnerCalls(InnerInput) : j < i
  /\ (InnerIsCalled /\ settles < StepsOf(InnerResult)) => OwnCalls(WrapperStep) = {}

\* the supplier runs before the inner validation, which starts only when the
\* supplier's result has resolved
SupplierBeforeInner ==
  /\ \A i \in OwnCalls("supplier") : \A j \in InnerCalls(InnerInput) : i < j
  /\ (StepIsPending /\ settles = 0) => InnerCalls(InnerInput) = {}

IsWrapper == schema.kind \in {"refine", "transform", "default", "optional", "nullable", "nullish"}

\* C17 (as stated): a pending inner validation or own step makes the result
\* of a refine / transform / default / optional / nullable wrapper pending,
\* and the own step (predicate, transform function, default supplier) runs
\* only after the inner result has resolved.
C17_OwnStepAfterInner ==
  (IsWrapper /\ Called) =>
    /\ PendingnessPropagates
    /\ (schema.kind \in {"refine", "transform", "default"} /\ WrapperSteps > 0) => StepAfterInner

\* C17 (amended): a pending inner validation or own step makes the wrapper's
\* result pending; the predicate of a refine and the function of a transform
\* run only after the inner result has resolved, whereas the supplier of a
\* default runs before the inner validation, which starts only when the
\* supplier's result has resolved.
C17_PendingnessThroughWrappers ==
  (IsWrapper /\ Called) =>
    /\ PendingnessPropagates
    /\ schema.kind \in {"refine", "transform"} => StepAfterInner
    /\ schema.kind = "default" => SupplierBeforeInner

\* C17 witness: number().refine(async n => n > 0) under parseAsync on 0
\* rejected with one custom issue once the predicate had resolved
C17_Witness ==
  /\ schema = asyncPositive /\ entry = "parseAsync" /\ input = Num(0)
  /\ settles = 1 /\ pc = "settled"
  /\ outcome = Rejected(ValidationError(<<Issue(<<>>, "custom", "Refinement failed")>>))

----------------------------------------------------------------------------
(* C18 .. C20: pending children, partial results, chaining *)

\* the root array or object schema was given an array or object
CompositeOnItsKind == schema.kind \in {"array", "object"} /\ Called /\ input.t = schema.kind

\* the outcomes of the children (elements, declared fields) validated alone, each at its path
Children ==
  IF schema.kind = "array"
  THEN [i \in 1..Len(input.items) |-> ElementSync(<<>>, i).r]
  ELSE [i \in 1..Len(schema.shape) |->
          Parse(schema.shape[i].schema, GetProp(input.entries, schema.shape[i].key),
                <<Key(schema.shape[i].key)>>).r]

\* the issues of every failing child
ChildIssues ==
  Flatten([i \in 1..Len(Children) |->
             IF Final(Children[i]).k = "err" THEN IssuesOf(Final(Children[i]).e) ELSE <<>>])

\* C18: when the validation of an element or field is pending the result of
\* the array or object is pending; it settles only after every child has
\* settled; when it fails, the aggregate holds the issues of every failing
\* child, those that failed synchronously and those that failed afterwards.
C18_CompositeWaitsForEveryChild ==
  CompositeOnItsKind =>
    LET total == Sum([i \in 1..Len(Children) |-> StepsOf(Children[i])])
    IN /\ (\E i \in 1..Len(Children) : isPromise(Children[i])) =>
            /\ isPromise(Parse(schema, input, <<>>).r)
            /\ entry \in {"parse", "parseAgain"} => outcome = Raised(AsyncParseError)
       /\ settles < total => pc = "pending" /\ isPromise(task)
       /\ pc = "settled" <=> settles = total
       /\ (pc = "settled" /\ ChildIssues # <<>>) =>
            /\ task.k = "err" /\ isValidationError(task.e)
            /\ \A i \in 1..Len(ChildIssues) :
                 Count(task.e.issues, ChildIssues[i]) >= Count(ChildIssues, ChildIssues[i])

\* C18 witness: array(number().refine(async n => n > 0)) on [0, "x"]: element
\* 1 failed synchronously, element 0 after its predicate resolved, and the
\* aggregate holds both issues
C18_Witness ==
  /\ schema = ArraySchema(asyncPositive)
  /\ input = Arr(<<Num(0), Str(<<"x">>)>>)
  /\ pc = "settled" /\ settles = 1
  /\ task.k = "err" /\ Len(task.e.issues) = 2

\* C19: an array or object validator produces a value only if no child
\* failed: the caller never receives an array or object from which a failed
\* element or field was removed, and a successful array output has the
\* length and the element order of the input.
C19_NoPartialResult ==
  (CompositeOnItsKind /\ pc = "settled" /\ task.k = "val") =>
    /\ \A i \in 1..Len(Children) : Final(Children[i]).k = "val"
    /\ schema.kind = "array" =>
         /\ task.v.t = "array" /\ Len(task.v.items) = Len(input.items)
         /\ \A i \in 1..Len(input.items) : Final(Children[i]) = Val(task.v.items[i])
    /\ schema.kind = "object" =>
         SeqRange(ShapeKeys(schema.shape)) \subseteq SeqRange(ObjectKeys(task.v.entries))

\* the property of the configuration a chaining call sets
CallKey(c) ==
  CASE c.name \in {"regex", "email"} -> "re"
    [] c.name \in {"min", "max", "int", "passthrough", "strict"} -> c.name
    [] OTHER -> "none"

\* the constraint of a string or number schema whose violation an issue reports
ConstraintOf(issue) ==
  CASE issue.code = "too_small" -> "min"
    [] issue.code = "too_big" -> "max"
    [] issue.code = "invalid_string" -> "re"
    [] issue.message = "Expected integer" -> "int"
    [] OTHER -> "type"

\* value v meets the constraint the chaining call c sets
Satisfies(c, v) ==
  CASE c.name = "min" -> IF v.t = "string" THEN Len(v.s) >= c.arg ELSE ~LessThan(v, c.arg)
    [] c.name = "max" -> IF v.t = "string" THEN Len(v.s) <= c.arg ELSE ~GreaterThan(v, c.arg)
    [] c.name = "regex" -> LetterTest(v.s)
    [] c.name = "email" -> EmailTest(v.s)
    [] c.name = "int" -> IsInteger(v)
    [] OTHER -> TRUE

\* the new instance is the receiver's class and configuration with the one
\* property set, or a wrapper around the receiver
InstanceKeepsReceiver ==
  LET r == derived.receiver
      n == derived.instance
      c == derived.call
  IN CASE c.name \in {"optional", "nullable", "nullish"} -> n.kind = c.name /\ n.inner = r
       [] c.name = "partial" ->
            /\ n.kind = "object" /\ n.config = r.config /\ Len(n.shape) = Len(r.shape)
            /\ \A i \in 1..Len(r.shape) :
                 n.shape[i] = Field(r.shape[i].key, OptionalSchema(r.shape[i].schema))
       [] OTHER ->
            /\ n.kind = r.kind
            /\ DOMAIN n.config = DOMAIN r.config \cup {CallKey(c)}
            /\ \A k \in DOMAIN r.config \ {CallKey(c)} : n.config[k] = r.config[k]
            /\ r.kind = "object" => n.shape = r.shape

\* the outcome new of the new instance against the outcome old of the receiver, on one input
OutcomeKeepsReceiver(old, new) ==
  LET c == derived.call
  IN CASE c.name \in {"optional", "nullable", "nullish"} ->
            new = IF Accepts(schema, input) THEN Val(input) ELSE old
       [] c.name \in {"min", "max", "regex", "email", "int"} ->
            /\ (old.k = "err" /\ ConstraintOf(old.e.issues[1]) # CallKey(c)) => new.k = "err"
            /\ (new.k = "err" /\ ConstraintOf(new.e.issues[1]) # CallKey(c)) => old.k = "err"
            /\ new.k = "val" => new = Val(input) /\ Satisfies(c, input)
       [] c.name = "strict" ->
            /\ old.k = "err" =>
                 /\ new.k = "err"
                 /\ \A i \in 1..Len(old.e.issues) :
                      Count(new.e.issues, old.e.issues[i]) >= Count(old.e.issues, old.e.issues[i])
            /\ new.k = "val" => new = old
       [] c.name = "passthrough" ->
            /\ old.k = "err" => new = old
            /\ old.k = "val" =>
                 /\ new.k = "val"
                 /\ \A k \in SeqRange(ObjectKeys(old.v.entries)) :
                      GetProp(new.v.entries, k) = GetProp(old.v.entries, k)
                 /\ SeqRange(ObjectKeys(input.entries)) \subseteq SeqRange(ObjectKeys(new.v.entries))
       [] c.name = "partial" ->
            /\ new.k = "err" => old.k = "err"
            /\ (input.t # "object"
                  \/ \A k \in SeqRange(ShapeKeys(schema.shape)) : GetProp(input.entries, k) # Undef)
                 => new = old

----------------------------------------------------------------------------
(* C21 .. C23: primitives, parseAsync against parse *)

IsPrimitive(s) == s.kind \in {"string", "number", "boolean", "enum"}

\* the checks of a primitive in the order type, integer, min, max, pattern
CheckOrder == <<"type", "int", "min", "max", "re">>

\* input v violates check c of primitive s
Violates(s, v, c) ==
  CASE c = "type" ->
         (CASE s.kind = "string" -> v.t # "string"
            [] s.kind = "number" -> v.t # "number" \/ v = NaN
            [] s.kind = "boolean" -> v.t # "boolean"
            [] s.kind = "enum" -> ~(v.t = "string" /\ \E i \in 1..Len(s.vals) : s.vals[i] = v.s))
    [] s.kind \in {"boolean", "enum"} -> FALSE
    [] c \notin DOMAIN s.config -> FALSE
    [] c = "int" -> s.config.int /\ v.kind # "finite"
    [] c = "min" -> IF s.kind = "string" THEN Len(v.s) < s.config.min ELSE LessThan(v, s.config.min)
    [] c = "max" -> IF s.kind = "string" THEN Len(v.s) > s.config.max ELSE GreaterThan(v, s.config.max)
    [] c = "re" -> ~RegexTest(s.config.re, v.s)

\* the checks v violates: the type alone when the type is wrong
Violated(s, v) ==
  IF Violates(s, v, "type") THEN {1}
  ELSE {i \in 2..Len(CheckOrder) : Violates(s, v, CheckOrder[i])}

\* C21: a failing primitive raises a ValidationError with exactly one issue,
\* at the current path, also when the input violates several constraints:
\* the issue reports the first violated check in the order type, integer,
\* min, max, pattern; a primitive that succeeds returns its input.
C21_PrimitiveReportsFirstViolation ==
  (IsPrimitive(schema) /\ Called) =>
    /\ \A p \in SamplePaths :
         LET e == Parse(schema, input, p)
         IN /\ e.log = <<ParseEv(schema, input, p, e.r)>>
            /\ IF Violated(schema, input) = {} THEN e.r = Val(input)
               ELSE /\ e.r.k = "err" /\ isValidationError(e.r.e)
                    /\ Len(e.r.e.issues) = 1
                    /\ e.r.e.issues[1].path = p
                    /\ ConstraintOf(e.r.e.issues[1]) = CheckOrder[Min(Violated(schema, input))]
    /\ pc = "settled" /\ task = Parse(schema, input, <<>>).r

\* C21 witness: a string schema with min 2, max 0 and a pattern, given "",
\* which is too short and does not match, reported the length only
C21_Witness ==
  /\ schema = narrowString /\ input = Str(<<>>) /\ entry = "parse"
  /\ Cardinality(Violated(schema, input)) = 2
  /\ outcome = Raised(ValidationError(<<Issue(<<>>, "too_small", "Min length 2")>>))

\* C22: the number validator rejects NaN with one invalid_type issue, and
\* number() without constraints returns Infinity and -Infinity unchanged.
C22_NumberRejectsNaNAcceptsInfinity ==
  (schema.kind = "number" /\ Called) =>
    /\ input = NaN =>
         \A p \in SamplePaths :
           Parse(schema, input, p).r = Thr(ValidationError(<<Issue(p, "invalid_type", "Expected number")>>))
    /\ input = NaN => task.k = "err" /\ Len(task.e.issues) = 1 /\ task.e.issues[1].code = "invalid_type"
    /\ (schema = number /\ input \in {Infinity, NegInfinity}) => task = Val(input)

\* C22 witness: number().parse(-Infinity) returned -Infinity
C22_Witness ==
  /\ schema = number /\ entry = "parse" /\ input = NegInfinity
  /\ outcome = Returned(NegInfinity)

\* C23: parseAsync and safeParseAsync deliver their outcome through the
\* returned pending computation and never raise; when the validation
\* produces no pending computation, parseAsync resolves to the value parse
\* returns and rejects with the error parse raises, and safeParseAsync
\* resolves to the result safeParse returns.
C23_AsyncEntryPointsAgreeWithSync ==
  (entry \in {"parseAsync", "safeParseAsync"}) =>
    LET r == Parse(schema, input, <<>>).r
        sync == parseOutcome(r)
    IN /\ outcome.how \in {"none", "fulfilled", "rejected"}
       /\ outcome = NoOutcome <=> pc = "pending"
       /\ (~SomePending /\ entry = "parseAsync") =>
            /\ pc = "settled" /\ settles = 0
            /\ outcome = IF sync.how = "returned" THEN Fulfilled(sync.v) ELSE Rejected(sync.e)
       /\ (~SomePending /\ entry = "safeParseAsync") =>
            /\ pc = "settled" /\ settles = 0
            /\ outcome = Fulfilled(safeParseOutcome(r).v)

\* C23 witness: number().parseAsync("x") rejected with the invalid_type error
\* that parse raises, without any pending computation
C23_Witness ==
  /\ schema = number /\ entry = "parseAsync" /\ input = Str(<<"x">>)
  /\ ~SomePending /\ settles = 0
  /\ outcome = Rejected(ValidationError(<<Issue(<<>>, "invalid_type", "Expected number")>>))

----------------------------------------------------------------------------
(* C24 .. C26: partial, calls on one instance, order of the wrappers *)

\* the input has an own property named key
HasOwn(key) == \E i \in 1..Len(input.entries) : input.entries[i].key = key

\* the input has the field: an own property whose value is not undefined
IsPresent(key) ==
  \E i \in 1..Len(input.entries) :
    input.entries[i].key = key /\ input.entries[i].val # Undef

\* the outcome of the receiver's field i on the input's own property of that name
PresentField(i) ==
  LET f == derived.receiver.shape[i]
      own == input.entries[CHOOSE j \in 1..Len(input.entries) : input.entries[j].key = f.key].val
  IN Parse(f.schema, own, <<Key(f.key)>>).r

\* C24: partial() returns an object validator with the receiver's strict /
\* passthrough configuration in which every declared field also accepts
\* absence: an input lacking any subset of the declared fields succeeds when
\* every present field satisfies its original schema, a present field that
\* violates its original schema fails at that field's path, and the receiver
\* itself is as before.
C24_PartialAcceptsAbsentFields ==
  (derived.made /\ derived.call.name = "partial") =>
    LET r == derived.receiver
        fields == 1..Len(r.shape)
        declared == SeqRange(ShapeKeys(r.shape))
    IN /\ derived.instance.config = r.config
       /\ ~derived.inUse => schema = r
       /\ (derived.inUse /\ Called /\ input.t = "object" /\ pc = "settled") =>
            /\ ((\A i \in fields : IsPresent(r.shape[i].key) => PresentField(i).k = "val")
                  /\ (IsStrict(r) => SeqRange(ObjectKeys(input.entries)) \subseteq declared))
                 => task.k = "val"
            /\ \A i \in fields :
                 (IsPresent(r.shape[i].key) /\ PresentField(i).k = "err") =>
                   /\ task.k = "err"
                   /\ \A j \in 1..Len(PresentField(i).e.issues) :
                        \E k \in 1..Len(task.e.issues) : task.e.issues[k] = PresentField(i).e.issues[j]

\* every result a promise term can settle to, over the orders its pending
\* computations can settle in
RECURSIVE Finals(_)
Finals(t) ==
  IF IsSettled(t) THEN {t}
  ELSE UNION {Finals(SettleAt(t, pos).r) : pos \in Leaves(t)}

\* the outcomes of entry point e on input x when the call is the only one made
\* on the instance
Alone(e, x) ==
  LET r == RootParse(schema, x, 0).r
  IN IF e \in {"parse", "safeParse"} THEN {EntryOutcome(e, r)}
     ELSE {Deliver(e, f) : f \in Finals(r)}

\* C25: calls on one schema instance do not interfere: with two calls in
\* flight at once and their pending children settling in any interleaving,
\* and with calls repeated one after another, each call's outcome is an
\* outcome the call has when it is run alone, so no issue of one call is in
\* the error of the other.
C25_CallsDoNotInterfere ==
  /\ (pc = "settled" /\ entry \in CallEntries) => outcome \in Alone(entry, input)
  /\ (other.made /\ IsSettled(other.task)) => other.outcome \in Alone(other.entry, other.input)

\* the schema is S.nullable().optional(), S.optional().nullable() or S.nullish()
IsNullishForm(s) ==
  \/ s.kind = "nullish"
  \/ s.kind = "optional" /\ s.inner.kind = "nullable"
  \/ s.kind = "nullable" /\ s.inner.kind = "optional"

\* the schema S the two wrappers were put around
WrappedSchema(s) == IF s.kind = "nullish" THEN s.inner ELSE s.inner.inner

\* C26: the order of nullable() and optional() does not matter: a call on
\* S.nullable().optional(), S.optional().nullable() or S.nullish() is pending
\* exactly when the call on each of the other two is, settles to the same
\* value or the same issues, and hands its caller the same outcome.
C26_NullableOptionalOrderIrrelevant ==
  (Called /\ IsNullishForm(schema)) =>
    \A f \in NullishForms(WrappedSchema(schema)) :
      LET r == Parse(f, input, <<>>).r
      IN /\ settles = 0 => (pc = "pending" <=> isPromise(r))
         /\ pc = "settled" => task = Final(r)
         /\ entry \in {"parse", "parseAgain"} => outcome = parseOutcome(r)
         /\ entry = "safeParse" => outcome = safeParseOutcome(r)
         /\ (entry \in {"parseAsync", "safeParseAsync"} /\ pc = "settled")
              => outcome = Deliver(entry, Final(r))

\* null given to S.nullable().optional() is accepted although the outer wrapper
\* is the optional one
C26_Witness ==
  /\ schema = optional(nullable(asyncPositive))
  /\ entry = "parseAsync"
  /\ pc = "settled"
  /\ input = Null
  /\ outcome = Fulfilled(Null)

----------------------------------------------------------------------------
(* C27 .. C30: completion, issues of a failure, strict with passthrough,   *)
(* replaced constraints                                                    *)

\* the pending computations the call has started: calls of user code that
\* returned a promise
PendingStarted ==
  Cardinality({i \in 1..Len(log) :
                 log[i].ev \in {"predicate", "transform", "supplier"} /\ log[i].ret = "promise"})

\* C27: every validation runs to completion: when a composite (array, object,
\* union) delivers its outcome to its caller, every pending computation its
\* children started has settled and was taken into account; none is abandoned.
C27_EveryStartedChildSettles ==
  (schema.kind \in {"array", "object", "union"}
     /\ entry \in {"parseAsync", "safeParseAsync"} /\ outcome # NoOutcome)
    => PendingStarted = settles

\* parse or parseAsync raised a ValidationError
RaisedValidationError ==
  /\ entry \in {"parse", "parseAgain", "parseAsync"}
  /\ outcome.how \in {"raised", "rejected"}
  /\ isValidationError(outcome.e)

\* safeParse or safeParseAsync returned success:false
ReturnedFailure ==
  /\ entry \in {"safeParse", "safeParseAsync"}
  /\ outcome.how \in {"returned", "fulfilled"}
  /\ ~outcome.v.success

\* C28: every failure carries at least one issue: when safeParse or
\* safeParseAsync returns success:false, or parse or parseAsync raises a
\* ValidationError, the issue list of that error is not empty.
C28_FailureHasAnIssue ==
  /\ RaisedValidationError => Len(outcome.e.issues) > 0
  /\ ReturnedFailure => Len(outcome.v.error.issues) > 0

\* the keys of the input that the shape of the schema does not declare
UndeclaredKeys == SeqRange(ObjectKeys(input.entries)) \ SeqRange(ShapeKeys(schema.shape))

\* C29: with strict and passthrough both set, strict decides: an input with
\* a key the shape does not declare fails with unrecognized_keys issues and
\* gives no output, so a call that succeeds had no undeclared key to copy.
C29_StrictDecidesOverPassthrough ==
  (schema.kind = "object" /\ IsStrict(schema) /\ IsPassthrough(schema)
     /\ input.t = "object" /\ pc = "settled") =>
    /\ UndeclaredKeys # {} =>
         /\ task.k = "err"
         /\ \E i \in 1..Len(task.e.issues) : task.e.issues[i].code = "unrecognized_keys"
    /\ task.k = "val" => UndeclaredKeys = {}

\* the checks of the receiver, other than the one the call sets, that v violates
KeptViolations(v) ==
  {i \in Violated(derived.receiver, v) : CheckOrder[i] # CallKey(derived.call)}

\* C30: regex(r), email(), min(n) and max(n) replace what an earlier call of
\* the same kind set and keep the rest: the new instance holds the new
\* pattern or bound in place of the old one, and accepts a value exactly when
\* the value meets the receiver's other constraints and the new one, whatever
\* the replaced pattern or bound says about it.
C30_LaterCallReplacesEarlier ==
  (derived.made /\ derived.call.name \in {"regex", "email", "min", "max"}) =>
    LET r == derived.receiver
        n == derived.instance
        c == derived.call
    IN /\ n.kind = r.kind
       /\ DOMAIN n.config = DOMAIN r.config \cup {CallKey(c)}
       /\ \A k \in DOMAIN r.config \ {CallKey(c)} : n.config[k] = r.config[k]
       /\ n.config[CallKey(c)] =
            (CASE c.name = "regex" -> "letter" [] c.name = "email" -> "email" [] OTHER -> c.arg)
       /\ (derived.inUse /\ Called /\ pc = "settled") =>
            IF Violates(r, input, "type") THEN task.k = "err"
            ELSE (task = Val(input)) <=> (KeptViolations(input) = {} /\ Satisfies(c, input))

\* C30 witness: string().email().regex(/[a-z]/i) returned "x", which matches
\* the pattern and is not an e-mail address
C30_Witness ==
  /\ derived.made /\ derived.inUse
  /\ derived.receiver = StringSchema_email(string) /\ derived.call.name = "regex"
  /\ entry = "parse" /\ input = Str(<<"x">>)
  /\ ~EmailTest(input.s)
  /\ outcome = Returned(input)

====
